---- MODULE Spec2Model ----
(***************************************************************************)
(* Consumption reconstruction and reconciliation engine of the            *)
(* ha_energy_analyzer add-on: the persisted historical table              *)
(* (output/energy_analysis.csv), the merge engine                         *)
(* (HAHistoryMain.merge_with_existing_analysis), the save stage of        *)
(* HAHistoryMain.pull_data, the hourly reconstruction                     *)
(* (EnergyDataAnalyzer.calculate_hourly_consumption) and the cross-source *)
(* reconciliation (apply_upstream_device_adjustments,                     *)
(* add_consumption_analysis).                                             *)
(*                                                                         *)
(* Units.  A Timestamp of an hourly table is a whole number of hours      *)
(* since 2025-09-27 00:00.  A datetime string 'YYYY-MM-DD HH:MM:SS' is    *)
(* the pair <<day, hour-of-day>>; strings of that format compare          *)
(* lexicographically, as the pairs do.  Entity ids and sensor names are   *)
(* the ranks of the strings in alphabetical order.  Energy is exact       *)
(* fixed-point arithmetic where the code computes in binary floating      *)
(* point.  Writes of files succeed (the except branches of the save       *)
(* functions, which return False, are not modelled).                      *)
(***************************************************************************)
EXTENDS Integers, Sequences, FiniteSets, TLC

(***************************************************************************)
(* Bounds of the model.                                                    *)
(***************************************************************************)
\* the hours of a batch are 0 .. MaxHour
MaxHour == 1
\* the entities of the two sources are 1 .. MaxEntity
MaxEntity == 3
\* number of merges and pull cycles of one run of the model
MaxOps == 2
\* last_changed of a raw observation is one of the instants 0 .. MaxTick
MaxTick == 6
\* number of raw observations of one sensor
MaxReadings == 3

VARIABLES
    table,         \* output/energy_analysis.csv
    table_json,    \* output/energy_analysis.json
    archive,       \* archive/<output_filename>.csv, by output identifier
    archive_json,  \* archive/<output_filename>.json, by output identifier
    now,           \* number of output identifiers handed out so far
    last,          \* the last operation: its arguments, result and pre-state
    data,          \* EnergyDataAnalyzer.data: the raw observations loaded
    hourly_data,   \* EnergyDataAnalyzer.hourly_data: sensor -> hourly records
    holidays,      \* the holidays library of the process: HOLIDAYS_AVAILABLE
    latest_analysis, \* output/latest_analysis.csv, the snapshot of the add-on
    fetch          \* the Emporia fetch of the cycle: threads, requests, records

vars == <<table, table_json, archive, archive_json, now, last, data, hourly_data,
          holidays, latest_analysis, fetch>>

(***************************************************************************)
(* Datetime conversions.                                                   *)
(***************************************************************************)
\* dt.strftime('%Y-%m-%d %H:%M:%S') of an hour-aligned Timestamp
Strftime(t) == <<t \div 24, t % 24>>

\* pd.to_datetime of a 'YYYY-MM-DD HH:MM:SS' string
ToDatetime(s) == s[1] * 24 + s[2]

(***************************************************************************)
(* Rows and DataFrames.  A DataFrame is [cols, rows]: cols is FALSE for    *)
(* pd.DataFrame() without any column (then rows is empty).                 *)
(***************************************************************************)
EntityIds == 1 .. MaxEntity

\* the entities of the Home Assistant source and of the Emporia source
HaEntities == {1}

EmporiaEntities == EntityIds \ HaEntities

\* the entities of a batch: those of the sources that gave data (pull_data
\* goes on with one source when the other one fails)
SourceSets == {HaEntities, EmporiaEntities, EntityIds}

\* display name of an entity (rank of the name); the order of the names is
\* the reverse of the order of the entity ids
SensorNameOf(e) == 100 - e

Hours == 0 .. MaxHour

\* the hours [a, b] a pull cycle covers
Windows == { a .. b : a \in Hours, b \in Hours } \ {{}}

MkRow(t, e, v) ==
    [datetime |-> Strftime(t), entity_id |-> e, sensor_name |-> SensorNameOf(e),
     hourly_consumption |-> v]

NoColumnsDF == [cols |-> FALSE, rows |-> <<>>]

DF(rows) == [cols |-> TRUE, rows |-> rows]

\* EnergyDataAnalyzer.data before load_data
NotLoaded == [loaded |-> FALSE, rows |-> <<>>]

\* the elements of a set of integers in ascending order
RECURSIVE Ascending(_)
Ascending(S) ==
    IF S = {} THEN <<>>
    ELSE LET m == CHOOSE x \in S : \A y \in S : x <= y
         IN  <<m>> \o Ascending(S \ {m})

\* pd.concat of a list of frames
RECURSIVE Flatten(_)
Flatten(ss) == IF ss = <<>> THEN <<>> ELSE Head(ss) \o Flatten(Tail(ss))

\* The hourly batch of one cycle: a row of reading v for every entity of es
\* (the entities of the sources that answered) at every hour of hs, entity by
\* entity as pull_data concatenates them.  With dup the last hour of the
\* first entity is carried twice, as a chunked fetch returns the hour at a
\* chunk boundary of a window that does not start on the hour
\* (fetch_emporia_data_chunked, EmporiaDataPuller.get_history_data).
BatchRows(hs, es, v, dup) ==
    LET hseq == Ascending(hs)
        eseq == Ascending(es)
        rows == Flatten([i \in 1 .. Len(eseq) |->
                            [j \in 1 .. Len(hseq) |-> MkRow(hseq[j], eseq[i], v)]])
    IN  IF dup THEN rows \o <<MkRow(hseq[Len(hseq)], eseq[1], v)>> ELSE rows

\* the non-empty batches of the cycle whose readings are v
CombinedDFs(v) ==
    { DF(BatchRows(hs, es, v, dup)) :
        hs \in Windows, es \in SourceSets, dup \in BOOLEAN }

\* the batches of a cycle whose fetches returned every hour once
CleanDFs(v) ==
    { DF(BatchRows(hs, es, v, FALSE)) : hs \in Windows, es \in SourceSets }

\* the DataFrames handed to merge_with_existing_analysis
Batches(v) == CombinedDFs(v) \cup { DF(<<>>), NoColumnsDF }

\* variant: an empty frame is never recognised
IsEmpty_Never(df) == FALSE

\* hourly_df.empty
IsEmpty(df) == df.rows = <<>>

(***************************************************************************)
(* Files.  kind is "absent", "csv" or "json" (rows holds the records), or  *)
(* one of the unreadable kinds: "unreadable" (pd.read_csv raises: empty or *)
(* binary file), "no_datetime" (parses, but without a datetime column),    *)
(* "bad_datetime" (a datetime cell pd.to_datetime rejects).                *)
(***************************************************************************)
Absent == [kind |-> "absent", rows |-> <<>>]

\* no Emporia fetch started
NoFetch == [pc |-> "idle"]

CsvFile(rows) == [kind |-> "csv", rows |-> rows]

JsonFile(rows) == [kind |-> "json", rows |-> rows]

Damaged(k) == [kind |-> k, rows |-> <<>>]

DamageKinds == {"unreadable", "no_datetime", "bad_datetime"}

(***************************************************************************)
(* Stable sorting (DataFrame.sort_values on several columns is a stable    *)
(* lexicographic sort).                                                    *)
(***************************************************************************)
RECURSIVE TupleLess(_, _)
TupleLess(a, b) ==
    IF a = <<>> THEN FALSE
    ELSE IF a[1] # b[1] THEN a[1] < b[1]
    ELSE TupleLess(Tail(a), Tail(b))

\* the place of the pair keyed[i] = <<key, row>> in the stable ascending
\* order: behind every pair of a smaller key and every earlier pair of its key
StableRank(keyed, i) ==
    Cardinality({ j \in 1 .. Len(keyed) :
                    \/ TupleLess(keyed[j][1], keyed[i][1])
                    \/ (j <= i /\ ~TupleLess(keyed[i][1], keyed[j][1])) })

\* the pairs <<key, row>> in ascending order of their keys, stable
SortValues(keyed) ==
    IF keyed = <<>> THEN <<>>
    ELSE LET ranked == { <<StableRank(keyed, i), keyed[i]>> : i \in 1 .. Len(keyed) }
         IN  [p \in 1 .. Len(keyed) |-> (CHOOSE t \in ranked : t[1] = p)[2]]

\* df['datetime'] = pd.to_datetime(df['datetime'])
ParseDatetimeColumn(rows) ==
    [i \in 1 .. Len(rows) |-> [rows[i] EXCEPT !.datetime = ToDatetime(@)]]

\* df['datetime'] = df['datetime'].dt.strftime('%Y-%m-%d %H:%M:%S')
FormatDatetimeColumn(rows) ==
    [i \in 1 .. Len(rows) |-> [rows[i] EXCEPT !.datetime = Strftime(@)]]

\* merged_df.sort_values(['datetime', 'entity_id']), datetime a Timestamp
SortDatetimeEntity(rows) ==
    LET sorted == SortValues([i \in 1 .. Len(rows) |->
                                 <<<<rows[i].datetime, rows[i].entity_id>>, rows[i]>>])
    IN  [i \in 1 .. Len(rows) |-> sorted[i][2]]

\* df_copy.sort_values(['datetime', 'sensor_name']), datetime a string
SortDatetimeName(rows) ==
    LET sorted == SortValues([i \in 1 .. Len(rows) |->
                                 <<<<rows[i].datetime[1], rows[i].datetime[2],
                                     rows[i].sensor_name>>, rows[i]>>])
    IN  [i \in 1 .. Len(rows) |-> sorted[i][2]]

\* variant: the overlapping rows are not removed
NotIsin_KeepAll(rows, overlapping_datetimes) == rows

\* variant: the filter without its negation
RECURSIVE NotIsin_Inverted(_, _)
NotIsin_Inverted(rows, overlapping_datetimes) ==
    IF rows = <<>> THEN <<>>
    ELSE IF Head(rows).datetime \in overlapping_datetimes
         THEN <<Head(rows)>> \o NotIsin_Inverted(Tail(rows), overlapping_datetimes)
         ELSE NotIsin_Inverted(Tail(rows), overlapping_datetimes)

\* existing_df[~existing_df['datetime'].isin(overlapping_datetimes)]
RECURSIVE NotIsin(_, _)
NotIsin(rows, overlapping_datetimes) ==
    IF rows = <<>> THEN <<>>
    ELSE IF Head(rows).datetime \in overlapping_datetimes
         THEN NotIsin(Tail(rows), overlapping_datetimes)
         ELSE <<Head(rows)>> \o NotIsin(Tail(rows), overlapping_datetimes)

(***************************************************************************)
(* save_hourly_data_to_csv(hourly_df, output_file): the value returned and *)
(* the file afterwards; old is the file before.                            *)
(***************************************************************************)
SaveHourlyDataToCsv(hourly_df, old) ==
    IF IsEmpty(hourly_df)
    THEN [ok |-> FALSE, file |-> old]
    ELSE [ok |-> TRUE, file |-> CsvFile(SortDatetimeName(hourly_df.rows))]

\* save_hourly_data_to_json(hourly_df, output_file)
SaveHourlyDataToJson(hourly_df, old) ==
    IF IsEmpty(hourly_df)
    THEN [ok |-> FALSE, file |-> old]
    ELSE [ok |-> TRUE, file |-> JsonFile(SortDatetimeName(hourly_df.rows))]

\* variant: a parse error is swallowed and the merge goes on
ExistingUnreadable_Swallowed(tbl) == FALSE

\* pd.read_csv(analysis_csv), existing_df['datetime'] or pd.to_datetime raises
ExistingUnreadable(tbl) == tbl.kind \in DamageKinds

\* variant: the table is written as if no file existed
MergeWithExistingAnalysis_Overwrite(new_df, tbl, arch) ==
    LET saved == SaveHourlyDataToCsv(new_df, tbl)
    IN  [result |-> saved.ok, table |-> saved.file, archive |-> arch]

(***************************************************************************)
(* merge_with_existing_analysis(new_df, output_filename): tbl is           *)
(* energy_analysis.csv and arch is archive/<output_filename>.csv before    *)
(* the call; the result holds the value returned and both files after it.  *)
(***************************************************************************)
MergeWithExistingAnalysis(new_df, tbl, arch) ==
    IF tbl.kind = "absent"
    THEN \* no existing file: just save the new data
         LET saved == SaveHourlyDataToCsv(new_df, tbl)
         IN  [result |-> saved.ok, table |-> saved.file, archive |-> arch]
    ELSE IF ExistingUnreadable(tbl) \/ ~new_df.cols  \* new_df['datetime'] raises
    THEN [result |-> FALSE, table |-> tbl, archive |-> arch]
    ELSE LET existing_df == ParseDatetimeColumn(tbl.rows)
             new_rows == ParseDatetimeColumn(new_df.rows)
             overlapping_datetimes == { new_rows[i].datetime : i \in 1 .. Len(new_rows) }
             filtered_existing == NotIsin(existing_df, overlapping_datetimes)
             merged_df == FormatDatetimeColumn(
                              SortDatetimeEntity(filtered_existing \o new_rows))
             saved == SaveHourlyDataToCsv(DF(merged_df), tbl)
             new_df_copy == FormatDatetimeColumn(new_rows)
             archived == SaveHourlyDataToCsv(DF(new_df_copy), arch)
         IN  IF saved.ok
             THEN [result |-> TRUE, table |-> saved.file, archive |-> archived.file]
             ELSE [result |-> FALSE, table |-> saved.file, archive |-> arch]

(***************************************************************************)
(* The save stage of pull_data (output_format = 'both', as every caller    *)
(* passes it): combined_df is the reconciled batch of the cycle.           *)
(***************************************************************************)
OutputFilenames == 1 .. MaxOps

\* variant: every cycle writes under the same identifier
OutputFilename_Fixed(n) == 1

\* the output identifier of the cycle after n earlier ones: it carries the
\* wall-clock second of the cycle, and cycles run one after the other
OutputFilename(n) == n + 1

PullDataSave(combined_df, is_incremental, tbl, tblj, arch, archj) ==
    LET merged == MergeWithExistingAnalysis(combined_df, tbl, arch)
        archived == SaveHourlyDataToCsv(combined_df, arch)
        latest == SaveHourlyDataToCsv(combined_df, tbl)
        archived_json == SaveHourlyDataToJson(combined_df, archj)
        latest_json == SaveHourlyDataToJson(combined_df, tblj)
    IN  IF is_incremental
        THEN [data_pull |-> merged.result,
              table |-> merged.table, archive |-> merged.archive,
              table_json |-> tblj, archive_json |-> archived_json.file]
        ELSE [data_pull |-> archived.ok \/ archived_json.ok,
              table |-> IF archived.ok THEN latest.file ELSE tbl,
              archive |-> archived.file,
              table_json |-> IF archived_json.ok THEN latest_json.file ELSE tblj,
              archive_json |-> archived_json.file]

\* the record of an operation not yet run
NoOp ==
    [op |-> "none", new_df |-> NoColumnsDF, is_incremental |-> FALSE,
     output_filename |-> 0, result |-> FALSE, before |-> Absent,
     archive_before |-> [n \in OutputFilenames |-> Absent]]

\* no analysis table, no archive copy, no analyzer
MergeInit ==
    /\ table = Absent
    /\ table_json = Absent
    /\ archive = [n \in OutputFilenames |-> Absent]
    /\ archive_json = [n \in OutputFilenames |-> Absent]
    /\ now = 0
    /\ last = NoOp
    /\ data = NotLoaded
    /\ hourly_data = <<>>
    /\ holidays = "loaded"
    /\ latest_analysis = Absent
    /\ fetch = NoFetch

\* a call of merge_with_existing_analysis under a fresh output identifier
MergeCall(new_df) ==
    /\ now < MaxOps
    /\ LET output_filename == OutputFilename(now)
           m == MergeWithExistingAnalysis(new_df, table, archive[output_filename])
       IN  /\ table' = m.table
           /\ archive' = [archive EXCEPT ![output_filename] = m.archive]
           /\ last' = [op |-> "merge", new_df |-> new_df, is_incremental |-> TRUE,
                       output_filename |-> output_filename,
                       result |-> m.result, before |-> table,
                       archive_before |-> archive]
    /\ now' = now + 1
    /\ UNCHANGED <<table_json, archive_json, data, hourly_data, holidays, latest_analysis, fetch>>

\* the environment leaves the table in a state the merge cannot parse
ExternalDamage(k) ==
    /\ table.kind = "csv"
    /\ table' = Damaged(k)
    /\ last' = [NoOp EXCEPT !.op = "external", !.before = table,
                            !.archive_before = archive]
    /\ UNCHANGED <<table_json, archive, archive_json, now, data, hourly_data, holidays, latest_analysis, fetch>>

MergeNext ==
    \/ \E new_df \in Batches(now + 1) : MergeCall(new_df)
    \/ \E k \in DamageKinds : ExternalDamage(k)

SpecMerge == MergeInit /\ [][MergeNext]_vars

(***************************************************************************)
(* Pull cycles: the save stage of pull_data on the batch of each cycle.    *)
(***************************************************************************)
\* one pull cycle whose sources gave data: pull_data from line 1755 on
PullData(combined_df, is_incremental) ==
    /\ now < MaxOps
    /\ LET output_filename == OutputFilename(now)
           r == PullDataSave(combined_df, is_incremental, table, table_json,
                             archive[output_filename], archive_json[output_filename])
       IN  /\ table' = r.table
           /\ table_json' = r.table_json
           /\ archive' = [archive EXCEPT ![output_filename] = r.archive]
           /\ archive_json' = [archive_json EXCEPT ![output_filename] = r.archive_json]
           /\ last' = [op |-> "pull", new_df |-> combined_df,
                       is_incremental |-> is_incremental,
                       output_filename |-> output_filename,
                       result |-> r.data_pull, before |-> table,
                       archive_before |-> archive]
    /\ now' = now + 1
    /\ UNCHANGED <<data, hourly_data, holidays, latest_analysis, fetch>>

CycleNext ==
    \E combined_df \in CleanDFs(now + 1), is_incremental \in BOOLEAN :
        PullData(combined_df, is_incremental)

SpecCycle == MergeInit /\ [][CycleNext]_vars

(***************************************************************************)
(* The same batch merged twice in a row, into every table one or two       *)
(* earlier operations leave behind.                                        *)
(***************************************************************************)
SavedTables == { SaveHourlyDataToCsv(b, Absent).file : b \in CombinedDFs(1) }

MergedTables ==
    { MergeWithExistingAnalysis(b, t, Absent).table :
        b \in CleanDFs(2), t \in SavedTables }

TwiceInit ==
    /\ table \in {Absent} \cup { Damaged(k) : k \in DamageKinds }
                   \cup SavedTables \cup MergedTables
    /\ table_json = Absent
    /\ archive = [n \in OutputFilenames |-> Absent]
    /\ archive_json = [n \in OutputFilenames |-> Absent]
    /\ now = 0
    /\ last = NoOp
    /\ data = NotLoaded
    /\ hourly_data = <<>>
    /\ holidays = "loaded"
    /\ latest_analysis = Absent
    /\ fetch = NoFetch

MergeFirst == now = 0 /\ \E new_df \in Batches(3) : MergeCall(new_df)

MergeAgain == now = 1 /\ MergeCall(last.new_df)

TwiceNext == MergeFirst \/ MergeAgain

SpecTwice == TwiceInit /\ [][TwiceNext]_vars

(***************************************************************************)
(* Properties of the merge engine and of the save stage.                   *)
(***************************************************************************)
RECURSIVE Count(_, _)
Count(rows, r) ==
    IF rows = <<>> THEN 0
    ELSE (IF Head(rows) = r THEN 1 ELSE 0) + Count(Tail(rows), r)

RowsOf(rows) == { rows[i] : i \in 1 .. Len(rows) }

DatetimesOf(rows) == { rows[i].datetime : i \in 1 .. Len(rows) }

KeysOf(rows) == { <<rows[i].entity_id, rows[i].datetime>> : i \in 1 .. Len(rows) }

\* the same records, whatever their order
SameRows(a, b) == \A r \in RowsOf(a) \cup RowsOf(b) : Count(a, r) = Count(b, r)

\* the last operation ran merge_with_existing_analysis
LastMerged == last.op = "merge" \/ (last.op = "pull" /\ last.is_incremental)

\* C1: the persisted table holds at most one record per (entity_id, datetime),
\* and after a successful merge the records of every key of the batch are the
\* records of the batch.
C1_OneRecordPerKey ==
    /\ table.kind = "csv" =>
          \A i, j \in 1 .. Len(table.rows) :
              (table.rows[i].entity_id = table.rows[j].entity_id
               /\ table.rows[i].datetime = table.rows[j].datetime) => i = j
    /\ (LastMerged /\ last.result /\ table.kind = "csv") =>
          \A r \in RowsOf(table.rows) :
              <<r.entity_id, r.datetime>> \in KeysOf(last.new_df.rows)
                  => r \in RowsOf(last.new_df.rows)

\* C2: a successful merge of a batch into a present table yields the rows of
\* the table at hours the batch does not carry, together with every row of
\* the batch.
C2_MergeReplacesHours ==
    (LastMerged /\ last.result /\ last.before.kind = "csv") =>
        /\ table.kind = "csv"
        /\ \A r \in RowsOf(table.rows) \cup RowsOf(last.before.rows)
                    \cup RowsOf(last.new_df.rows) :
              Count(table.rows, r) =
                  Count(last.new_df.rows, r)
                  + (IF r.datetime \in DatetimesOf(last.new_df.rows)
                     THEN 0 ELSE Count(last.before.rows, r))

\* a present table lost the rows of another entity at an hour of the batch
\* and kept its rows at another hour
C2_Witness ==
    /\ LastMerged /\ last.result /\ last.before.kind = "csv"
    /\ \E r \in RowsOf(last.before.rows) :
          /\ r.datetime \in DatetimesOf(last.new_df.rows)
          /\ <<r.entity_id, r.datetime>> \notin KeysOf(last.new_df.rows)
    /\ \E r \in RowsOf(last.before.rows) :
          r.datetime \notin DatetimesOf(last.new_df.rows)

\* C3: once a batch has been merged, merging the same batch again leaves the
\* table as the first merge left it, whatever the table (absent, present or
\* unreadable) and the batch.
C3_MergeIdempotent ==
    now = 2 => table = last.before

\* the same non-empty batch was merged twice into a present table, which
\* keeps rows of hours the batch does not carry
C3_Witness ==
    /\ now = 2 /\ last.result /\ last.before.kind = "csv"
    /\ last.new_df.rows # <<>>
    /\ \E r \in RowsOf(table.rows) : r.datetime \notin DatetimesOf(last.new_df.rows)

\* C4: every key of the table before a successful merge is a key of the
\* table after it.
C4_NoKeyLost ==
    (LastMerged /\ last.result /\ last.before.kind = "csv") =>
        KeysOf(last.before.rows) \subseteq KeysOf(table.rows)

\* C5: a merge into a table that cannot be read or parsed reports failure and
\* writes neither the table nor an archive copy.
C5_UnreadableUntouched ==
    (LastMerged /\ last.before.kind \in DamageKinds) =>
        /\ ~last.result
        /\ table = last.before
        /\ archive = last.archive_before

\* a non-empty batch met an unreadable table
C5_Witness ==
    /\ LastMerged /\ last.before.kind \in DamageKinds
    /\ last.new_df.rows # <<>>

\* C6 as stated: merging an empty batch succeeds and leaves the table as it
\* was, in the absent and in the present state.
C6_EmptyBatchSucceeds ==
    (last.op = "merge" /\ last.new_df.rows = <<>> /\ last.before.kind \in {"absent", "csv"}) =>
        last.result /\ table = last.before

\* C6 amended: merging an empty batch leaves the table as it was; it reports
\* success exactly when the table is present and readable and the batch has
\* its datetime column, and failure otherwise.
C6_EmptyBatchNoOp ==
    (last.op = "merge" /\ last.new_df.rows = <<>>) =>
        /\ table = last.before
        /\ last.result <=> (last.before.kind = "csv" /\ last.new_df.cols)

\* an empty batch was merged into a present table and the merge succeeded
C6_Witness ==
    /\ last.op = "merge" /\ last.new_df.rows = <<>> /\ last.new_df.cols
    /\ last.before.kind = "csv"
    /\ last.result

\* C7 as stated: the rows of the table at hours outside the batch of a cycle
\* survive the cycle, incremental or not.
C7_RowsSurviveEveryCycle ==
    (last.op = "pull" /\ last.result /\ last.before.kind = "csv") =>
        /\ table.kind = "csv"
        /\ \A r \in RowsOf(last.before.rows) :
              r.datetime \notin DatetimesOf(last.new_df.rows)
                  => Count(table.rows, r) = Count(last.before.rows, r)

\* C7 amended: an incremental cycle changes the table only through the merge,
\* so the rows at hours outside its batch survive; a cycle that is not
\* incremental replaces the table by its own batch.
C7_IncrementalRowsSurvive ==
    /\ (last.op = "pull" /\ last.is_incremental /\ last.result
            /\ last.before.kind = "csv") =>
          /\ table.kind = "csv"
          /\ \A r \in RowsOf(last.before.rows) :
                r.datetime \notin DatetimesOf(last.new_df.rows)
                    => Count(table.rows, r) = Count(last.before.rows, r)
    /\ (last.op = "pull" /\ ~last.is_incremental) =>
          /\ table.kind = "csv"
          /\ SameRows(table.rows, last.new_df.rows)

\* an incremental cycle left rows of hours outside its batch in the table
C7_Witness ==
    /\ last.op = "pull" /\ last.is_incremental /\ last.result
    /\ last.before.kind = "csv"
    /\ table # last.before
    /\ \E r \in RowsOf(last.before.rows) :
          r.datetime \notin DatetimesOf(last.new_df.rows)

\* no archive copy that existed before the last operation was changed by it
ArchiveAppendOnly ==
    \A n \in OutputFilenames :
        /\ last.archive_before[n] # Absent => archive[n] = last.archive_before[n]
        /\ (last.op = "pull" /\ n # last.output_filename) =>
              archive[n] = last.archive_before[n]

\* C8 as stated: archive copies are never changed, and every merge that
\* persists a table archives its batch.
C8_EveryMergeArchives ==
    /\ ArchiveAppendOnly
    /\ (LastMerged /\ last.result /\ table # last.before) =>
          /\ archive[last.output_filename].kind = "csv"
          /\ SameRows(archive[last.output_filename].rows, last.new_df.rows)

\* C8 amended: archive copies are never changed by a later cycle or merge; a
\* merge that persists over a present table archives the rows of its batch,
\* and a merge that creates the table writes no archive copy of its own.
C8_PresentMergeArchives ==
    /\ ArchiveAppendOnly
    /\ (LastMerged /\ last.result /\ last.before.kind = "csv") =>
          /\ archive[last.output_filename].kind = "csv"
          /\ SameRows(archive[last.output_filename].rows, last.new_df.rows)
    /\ (LastMerged /\ last.before.kind = "absent") =>
          archive[last.output_filename] = Absent

\* a second cycle merged into a present table while the copy of the first
\* cycle was in the archive
C8_Witness ==
    /\ LastMerged /\ last.result /\ last.before.kind = "csv"
    /\ \E n \in OutputFilenames :
          n # last.output_filename /\ last.archive_before[n].kind = "csv"
    /\ archive[last.output_filename].kind = "csv"

(***************************************************************************)
(* Hourly reconstruction (EnergyDataAnalyzer).  last_changed of a raw      *)
(* observation is a whole number of ticks, TicksPerHour ticks to the hour, *)
(* since 2025-09-27 00:00.  A cumulative reading is a whole number of      *)
(* units of 0.01 / Scale kWh, where Scale is a common multiple of every    *)
(* distance in ticks between two observations: linear interpolation is     *)
(* exact in these units.                                                   *)
(***************************************************************************)
TicksPerHour == 2

\* the tolerance 0.1 kWh of the reset checks, in 0.01 kWh
ResetThreshold == 10

RECURSIVE Gcd(_, _)
Gcd(a, b) == IF b = 0 THEN a ELSE Gcd(b, a % b)

RECURSIVE LcmUpTo(_)
LcmUpTo(n) == IF n <= 1 THEN 1 ELSE (LcmUpTo(n - 1) * n) \div Gcd(LcmUpTo(n - 1), n)

Scale == LcmUpTo(MaxTick)

\* a reading of c hundredths of a kWh
Kwh(c) == c * Scale

\* the readings the sensors report, in 0.01 kWh
ReadingValues == {-5, 10, 20, 35}

\* one raw observation of self.data after load_data
Observation(e, t, c) == [entity_id |-> e, last_changed |-> t, state_numeric |-> Kwh(c)]

\* the observations of sensor e at the instants of ticks, with the readings c
ObservationsAt(e, ticks, c) ==
    LET tseq == Ascending(ticks)
    IN  [i \in 1 .. Len(tseq) |-> Observation(e, tseq[i], c[tseq[i]])]

\* the histories of one sensor: at most MaxReadings observations at distinct
\* instants, in the order of time
Histories(e) ==
    UNION { { ObservationsAt(e, ticks, c) : c \in [ticks -> ReadingValues] } :
              ticks \in { T \in SUBSET (0 .. MaxTick) :
                            T # {} /\ Cardinality(T) <= MaxReadings } }

\* cumulative readings 10.0, 10.5, 0.2, 0.9 kWh at four consecutive hours
ExampleHistory(e) ==
    <<Observation(e, 0, 1000), Observation(e, TicksPerHour, 1050),
      Observation(e, 2 * TicksPerHour, 20), Observation(e, 3 * TicksPerHour, 90)>>

\* self.data[self.data['entity_id'] == sensor_id].sort_values('last_changed')
SensorData(rows, sensor_id) ==
    LET own == SelectSeq(rows, LAMBDA r : r.entity_id = sensor_id)
        sorted == SortValues([i \in 1 .. Len(own) |-> <<<<own[i].last_changed>>, own[i]>>])
    IN  [i \in 1 .. Len(own) |-> sorted[i][2]]

\* the hour as an instant in ticks
HourTick(hour) == hour * TicksPerHour

\* variant: any decrease counts as a reset
IsReset_AnyDecrease(diff) == diff < 0

\* variant: no decrease counts as a reset
IsReset_Never(diff) == FALSE

\* value_diff < -0.1, raw_consumption < -0.1
IsReset(diff) == diff < -Kwh(ResetThreshold)

None == [some |-> FALSE, value |-> 0]

Some(v) == [some |-> TRUE, value |-> v]

\* variant: the first reading of the sensor, whatever the hour
InterpolateHourlyValue_FirstRecord(df_sensor, target_hour) ==
    Some(df_sensor[1].state_numeric)

\* variant: the line through the two neighbours is followed one interval too far
InterpolateHourlyValue_Extrapolated(df_sensor, target_hour) ==
    LET target == HourTick(target_hour)
        exact_match == SelectSeq(df_sensor, LAMBDA r : r.last_changed = target)
        before == SelectSeq(df_sensor, LAMBDA r : r.last_changed < target)
        after == SelectSeq(df_sensor, LAMBDA r : r.last_changed > target)
    IN  IF exact_match # <<>> THEN Some(exact_match[1].state_numeric)
        ELSE IF before = <<>> \/ after = <<>> THEN None
        ELSE LET before_record == before[Len(before)]
                 after_record == after[1]
                 value_diff == after_record.state_numeric - before_record.state_numeric
                 time_diff == after_record.last_changed - before_record.last_changed
                 target_offset == target - before_record.last_changed
             IN  IF IsReset(value_diff) THEN Some(before_record.state_numeric)
                 ELSE Some(after_record.state_numeric
                           + (value_diff * target_offset) \div time_diff)

\* interpolate_hourly_value(df_sensor, target_hour)
InterpolateHourlyValue(df_sensor, target_hour) ==
    LET target == HourTick(target_hour)
        exact_match == SelectSeq(df_sensor, LAMBDA r : r.last_changed = target)
        before == SelectSeq(df_sensor, LAMBDA r : r.last_changed < target)
        after == SelectSeq(df_sensor, LAMBDA r : r.last_changed > target)
    IN  IF exact_match # <<>> THEN Some(exact_match[1].state_numeric)
        ELSE IF before = <<>> \/ after = <<>> THEN None
        ELSE LET before_record == before[Len(before)]
                 after_record == after[1]
                 value_diff == after_record.state_numeric - before_record.state_numeric
                 time_diff == after_record.last_changed - before_record.last_changed
                 target_offset == target - before_record.last_changed
             IN  IF IsReset(value_diff) THEN Some(before_record.state_numeric)
                 ELSE IF time_diff = 0 THEN Some(before_record.state_numeric)
                 ELSE Some(before_record.state_numeric
                           + (value_diff * target_offset) \div time_diff)

\* no clamp: the second argument whatever its sign
Max_Second(a, b) == b

Max(a, b) == IF a >= b THEN a ELSE b

\* one pass of the loop over hourly_timestamps: the records so far, extended
\* by the record of hour when the hour has a cumulative value
HourlyRecord(hourly_consumption, sensor_data, sensor_id, hour) ==
    LET cumulative == InterpolateHourlyValue(sensor_data, hour)
        cumulative_value == cumulative.value
        exact_match == SelectSeq(sensor_data, LAMBDA r : r.last_changed = HourTick(hour))
        method == IF exact_match = <<>> THEN <<"interpolated">> ELSE <<"exact">>
        prev_cumulative == hourly_consumption[Len(hourly_consumption)].cumulative_consumption
        raw_consumption == cumulative_value - prev_cumulative
        first == Len(hourly_consumption) = 0
        reset == ~first /\ IsReset(raw_consumption)
    IN  IF ~cumulative.some THEN hourly_consumption
        ELSE Append(hourly_consumption,
                 [datetime |-> hour,
                  entity_id |-> sensor_id,
                  sensor_name |-> SensorNameOf(sensor_id),
                  cumulative_consumption |-> cumulative_value,
                  hourly_consumption |->
                      IF first THEN 0
                      ELSE IF reset THEN Max(0, cumulative_value)
                      ELSE Max(0, raw_consumption),
                  data_method |-> IF reset THEN method \o <<"reset_detected">> ELSE method])

\* the loop over pd.date_range(start_hour, end_hour, freq='h'), from hour on
RECURSIVE HourlyLoop(_, _, _, _, _)
HourlyLoop(hourly_consumption, sensor_data, sensor_id, hour, end_hour) ==
    IF hour > end_hour THEN hourly_consumption
    ELSE HourlyLoop(HourlyRecord(hourly_consumption, sensor_data, sensor_id, hour),
                    sensor_data, sensor_id, hour + 1, end_hour)

\* calculate_hourly_consumption(sensor_id) on the loaded observations rows
CalculateHourlyConsumption(rows, sensor_id) ==
    LET sensor_data == SensorData(rows, sensor_id)
        min_time == sensor_data[1].last_changed
        max_time == sensor_data[Len(sensor_data)].last_changed
        start_hour == min_time \div TicksPerHour
        end_hour == IF max_time % TicksPerHour > 0
                    THEN max_time \div TicksPerHour + 2
                    ELSE max_time \div TicksPerHour + 1
        records == HourlyLoop(<<>>, sensor_data, sensor_id, start_hour, end_hour)
    IN  IF sensor_data = <<>> THEN NoColumnsDF
        ELSE IF records = <<>> THEN NoColumnsDF
        ELSE DF(records)

\* self.data['entity_id'].unique()
SensorsOf(rows) == { rows[i].entity_id : i \in 1 .. Len(rows) }

\* analyze_all_sensors(): the frames of the sensors that have hourly records
AnalyzeAll(rows) ==
    LET hourly_df == [s \in SensorsOf(rows) |-> CalculateHourlyConsumption(rows, s)]
        kept == { s \in SensorsOf(rows) : ~IsEmpty(hourly_df[s]) }
    IN  [s \in kept |-> hourly_df[s]]

HourlyInit ==
    /\ table = Absent
    /\ table_json = Absent
    /\ archive = [n \in OutputFilenames |-> Absent]
    /\ archive_json = [n \in OutputFilenames |-> Absent]
    /\ now = 0
    /\ last = NoOp
    /\ data = NotLoaded
    /\ hourly_data = <<>>
    /\ holidays = "loaded"
    /\ latest_analysis = Absent
    /\ fetch = NoFetch

\* load_data() on the history the source returned
LoadData(rows) ==
    /\ ~data.loaded
    /\ data' = [loaded |-> TRUE, rows |-> rows]
    /\ UNCHANGED <<table, table_json, archive, archive_json, now, last, hourly_data, holidays, latest_analysis, fetch>>

\* analyze_all_sensors() on the loaded data
AnalyzeAllSensors ==
    /\ data.loaded
    /\ hourly_data' = AnalyzeAll(data.rows)
    /\ last' = [last EXCEPT !.op = "analyze"]
    /\ UNCHANGED <<table, table_json, archive, archive_json, now, data, holidays, latest_analysis, fetch>>

HourlyNext ==
    \/ \E rows \in Histories(1) \cup {ExampleHistory(1)} : LoadData(rows)
    \/ AnalyzeAllSensors

SpecHourly == HourlyInit /\ [][HourlyNext]_vars

(***************************************************************************)
(* Cross-source reconciliation (HAHistoryMain).  The sensor mapping of the *)
(* model: entity 1 is a Home Assistant sensor whose upstream device is the *)
(* last Emporia channel; the Emporia channels are the entities from 2 on,  *)
(* and the first of them is the main panel.  No channel is named solar.    *)
(* A further Home Assistant sensor, a plug, is mapped with sensor 1 as its *)
(* upstream device; the Home Assistant source of the model has no history  *)
(* of it.                                                                  *)
(***************************************************************************)
\* the hours by which pull_data shifts the Home Assistant rows back
HaOffsetHours == 2

\* sensor_name of the main panel channel and of the solar channel
MainPanelName == SensorNameOf(2)

SolarName == SensorNameOf(0)

\* the plug behind sensor 1
PlugEntity == MaxEntity + 1

\* the entities of self.sensor_names whose upstream_sensor is not 'none'
MappedEntities == HaEntities \cup {PlugEntity}

\* mapping['upstream_sensor'] of a mapped sensor: a friendly name
UpstreamSensor(e) == IF e = PlugEntity THEN SensorNameOf(1) ELSE SensorNameOf(MaxEntity)

\* the Emporia channels of the whole-home total and of the grid balance
TotalUsageEntity == MaxEntity + 2

GridBalanceEntity == MaxEntity + 3

\* the entities add_consumption_analysis filters out
ExcludedEntities == {GridBalanceEntity, TotalUsageEntity}

\* the hourly usage the Emporia channels report, in 0.01 kWh
EmporiaValues == {0, 10, 30}

\* one record of EmporiaDataPuller.get_history_data, after the correction of
\* its timestamp: the usage c of channel e in the hour t
EmporiaRecord(e, t, c) == [entity_id |-> e, last_changed |-> t, state |-> Kwh(c)]

\* the answers of the Emporia source for the hours hs: hour by hour, every
\* channel in each hour, channel e with usage c[e], and the whole-home total
\* with a usage of 0.30 kWh
EmporiaHistories(hs) ==
    { Flatten([j \in 1 .. Len(Ascending(hs)) |->
                 [i \in 1 .. Len(Ascending(EmporiaEntities)) |->
                     EmporiaRecord(Ascending(EmporiaEntities)[i], Ascending(hs)[j],
                                   c[Ascending(EmporiaEntities)[i]])]
                 \o <<EmporiaRecord(TotalUsageEntity, Ascending(hs)[j], 30)>>]) :
        c \in [EmporiaEntities -> EmporiaValues] }

\* the answers of the Home Assistant source for the hours hs: an observation
\* of sensor 1 on every hour of the window, which pull_data shifts back
HaHistories(hs) ==
    { ObservationsAt(1, { HourTick(h + HaOffsetHours) : h \in hs }, c) :
        c \in [{ HourTick(h + HaOffsetHours) : h \in hs } -> ReadingValues] }

\* analyze_ha_data_internal: the frames of the sensors in one frame, datetime
\* as a string; None (a frame without columns) when no sensor has records
AnalyzeHaDataInternal(sensor_data) ==
    LET sensors == Ascending(DOMAIN sensor_data)
    IN  IF sensors = <<>> THEN NoColumnsDF
        ELSE DF(FormatDatetimeColumn(
                    Flatten([i \in 1 .. Len(sensors) |-> sensor_data[sensors[i]].rows])))

\* convert_emporia_to_hourly_format: None when there is no record
ConvertEmporiaToHourlyFormat(emporia_data) ==
    IF emporia_data = <<>> THEN NoColumnsDF
    ELSE DF([i \in 1 .. Len(emporia_data) |->
                [datetime |-> Strftime(emporia_data[i].last_changed),
                 entity_id |-> emporia_data[i].entity_id,
                 sensor_name |-> SensorNameOf(emporia_data[i].entity_id),
                 cumulative_consumption |-> emporia_data[i].state,
                 hourly_consumption |-> emporia_data[i].state,
                 data_method |-> <<"emporia_direct">>]])

\* the data_source and source columns pull_data adds
WithSource(rows, data_source) ==
    [i \in 1 .. Len(rows) |->
        [datetime |-> rows[i].datetime,
         entity_id |-> rows[i].entity_id,
         sensor_name |-> rows[i].sensor_name,
         cumulative_consumption |-> rows[i].cumulative_consumption,
         hourly_consumption |-> rows[i].hourly_consumption,
         data_method |-> rows[i].data_method,
         data_source |-> data_source,
         source |-> "sensor"]]

\* pd.to_datetime(df['datetime']) - pd.Timedelta(hours=2), as a string again
ShiftBack(rows) ==
    [i \in 1 .. Len(rows) |->
        [rows[i] EXCEPT !.datetime = Strftime(ToDatetime(@) - HaOffsetHours)]]

\* the union of the analyzed Home Assistant rows and the Emporia rows
\* (pull_data, lines 1711-1748); at least one of the two is not None
CombineSources(ha_analyzed_df, emporia_hourly_df) ==
    IF ha_analyzed_df.cols /\ emporia_hourly_df.cols
    THEN DF(WithSource(ShiftBack(ha_analyzed_df.rows), "Home Assistant")
            \o WithSource(emporia_hourly_df.rows, "Emporia"))
    ELSE IF ha_analyzed_df.cols
    THEN DF(WithSource(ShiftBack(ha_analyzed_df.rows), "Home Assistant"))
    ELSE DF(WithSource(emporia_hourly_df.rows, "Emporia"))

\* sorted(df['datetime'].unique()), datetime a string
Timestamps(rows) ==
    LET ts == { ToDatetime(rows[i].datetime) : i \in 1 .. Len(rows) }
    IN  [i \in 1 .. Cardinality(ts) |-> Strftime(Ascending(ts)[i])]

\* variant: nothing is taken off
AdjustUpstream_None(rows, timestamp, entity_id) == rows

\* one pass of the inner loop of apply_upstream_device_adjustments: the
\* consumption of sensor entity_id at timestamp is taken off its upstream row
AdjustUpstream(rows, timestamp, entity_id) ==
    LET ha_device_data ==
            Ascending({ i \in 1 .. Len(rows) :
                          /\ rows[i].datetime = timestamp
                          /\ rows[i].entity_id = entity_id
                          /\ rows[i].data_source = "Home Assistant" })
        upstream_device_data ==
            Ascending({ i \in 1 .. Len(rows) :
                          /\ rows[i].datetime = timestamp
                          /\ rows[i].sensor_name = UpstreamSensor(entity_id)
                          /\ rows[i].data_source = "Emporia" })
        ha_consumption == rows[ha_device_data[1]].hourly_consumption
        upstream_index == upstream_device_data[1]
    IN  IF ha_device_data = <<>> \/ upstream_device_data = <<>> THEN rows
        ELSE [rows EXCEPT
                 ![upstream_index].hourly_consumption = @ - ha_consumption,
                 ![upstream_index].cumulative_consumption = @ - ha_consumption,
                 ![upstream_index].data_method = @ \o <<"adjusted">>]

\* the loops of apply_upstream_device_adjustments over the pairs
\* <<timestamp, entity_id>> still to visit
RECURSIVE AdjustLoop(_, _)
AdjustLoop(rows, pairs) ==
    IF pairs = <<>> THEN rows
    ELSE LET adjusted == AdjustUpstream(rows, Head(pairs)[1], Head(pairs)[2])
         IN  IF adjusted = rows  \* no pair of rows to adjust at this timestamp
             THEN AdjustLoop(rows, Tail(pairs))
             ELSE AdjustLoop(adjusted, Tail(pairs))

\* apply_upstream_device_adjustments(combined_df)
ApplyUpstreamDeviceAdjustments(combined_df) ==
    LET timestamps == Timestamps(combined_df.rows)
        sensors == Ascending(MappedEntities)
        pairs == Flatten([i \in 1 .. Len(timestamps) |->
                            [j \in 1 .. Len(sensors) |-> <<timestamps[i], sensors[j]>>]])
    IN  DF(AdjustLoop(combined_df.rows, pairs))

\* variant: every sum is 0
SumHourly_Zero(rows) == 0

\* hour_data[...]['hourly_consumption'].sum()
RECURSIVE SumHourly(_)
SumHourly(rows) ==
    IF rows = <<>> THEN 0 ELSE Head(rows).hourly_consumption + SumHourly(Tail(rows))

\* the derived row k (1 total_consumption, 2 total_individual_sensors,
\* 3 untracked) of a timestamp; the entity ids analysis.* sort before and the
\* names after those of the sensors
AnalysisRow(timestamp, k, value) ==
    [datetime |-> timestamp,
     entity_id |-> k - 3,
     sensor_name |-> SensorNameOf(-k),
     cumulative_consumption |-> value,
     hourly_consumption |-> value,
     data_method |-> <<"calculated">>,
     data_source |-> "Analysis",
     source |-> "analysis"]

\* the three derived rows of one timestamp of the filtered rows
AnalysisRows(filtered_df, timestamp) ==
    LET hour_data == SelectSeq(filtered_df, LAMBDA r : r.datetime = timestamp)
        main_panel == SumHourly(SelectSeq(hour_data, LAMBDA r : r.sensor_name = MainPanelName))
        solar == SumHourly(SelectSeq(hour_data, LAMBDA r : r.sensor_name = SolarName))
        total_consumption == main_panel + solar
        individual_sensors ==
            SumHourly(SelectSeq(hour_data,
                                LAMBDA r : r.sensor_name \notin {MainPanelName, SolarName}))
        untracked == total_consumption - individual_sensors
    IN  <<AnalysisRow(timestamp, 1, total_consumption),
          AnalysisRow(timestamp, 2, individual_sensors),
          AnalysisRow(timestamp, 3, untracked)>>

\* variant: every row is a Total row
RowType_AllTotal(sensor_name) == "Total"

\* row_type of a row, by its sensor_name
RowType(sensor_name) ==
    IF sensor_name \in {MainPanelName, SensorNameOf(-1), SensorNameOf(-2)}
    THEN "Total" ELSE "Individual"

\* the day of the week of a day, Monday 0; day 0 is Saturday 2025-09-27
Weekday(day) == (day + 5) % 7

\* holidays.country_holidays('US') from 2025-09-27 to the end of 2025, as
\* days: Columbus Day, Veterans Day, Thanksgiving, Christmas Day
UsHolidays == {16, 45, 61, 89}

\* the states of the holidays library: imported, not installed, or imported
\* and raising when asked for the holidays of a year
HolidayStates == {"loaded", "missing", "broken"}

\* variant: the hour of the day alone decides
IsPeakHour_HourOnly(datetime_str, holidays_lib) ==
    7 <= datetime_str[2] /\ datetime_str[2] <= 20

\* _is_peak_hour(datetime_str)
IsPeakHour(datetime_str, holidays_lib) ==
    LET day == datetime_str[1]
        hour == datetime_str[2]
    IN  IF Weekday(day) >= 5 THEN FALSE
        ELSE IF holidays_lib = "loaded" /\ day \in UsHolidays THEN FALSE
        ELSE 7 <= hour /\ hour <= 20

\* the body of the try block of add_consumption_analysis
AnalysisResult(combined_df, holidays_lib) ==
    LET filtered_df == SelectSeq(combined_df.rows,
                                 LAMBDA r : r.entity_id \notin ExcludedEntities)
        timestamps == Timestamps(filtered_df)
        analysis_rows == Flatten([i \in 1 .. Len(timestamps) |->
                                     AnalysisRows(filtered_df, timestamps[i])])
        result_df == filtered_df \o analysis_rows
    IN  DF([i \in 1 .. Len(result_df) |->
               [datetime |-> result_df[i].datetime,
                entity_id |-> result_df[i].entity_id,
                sensor_name |-> result_df[i].sensor_name,
                cumulative_consumption |-> result_df[i].cumulative_consumption,
                hourly_consumption |-> result_df[i].hourly_consumption,
                data_method |-> result_df[i].data_method,
                data_source |-> result_df[i].data_source,
                source |-> result_df[i].source,
                row_type |-> RowType(result_df[i].sensor_name),
                peak_hours |-> IsPeakHour(result_df[i].datetime, holidays_lib)]])

\* add_consumption_analysis(combined_df); raised: an exception was raised
\* inside its try block, and the handler returns the frame it was given
AddConsumptionAnalysis(combined_df, holidays_lib, raised) ==
    IF raised THEN combined_df ELSE AnalysisResult(combined_df, holidays_lib)

(***************************************************************************)
(* One whole pull cycle (pull_data with data_sources = 'both' and          *)
(* analyze = True, as the add-on runs it) from the initial state.  puller  *)
(* tells whether self.puller is set when the cycle starts; ha and emporia  *)
(* are the histories the two sources have for the window of the cycle,     *)
(* after the correction of their timestamps; an empty history is a source  *)
(* that is unavailable, failed or returned nothing.  No exception is       *)
(* raised inside the reconciliation of the cycle.  last records, next to   *)
(* the arguments and the result, which of the sources had hourly data.     *)
(***************************************************************************)
PullCycle(puller, ha, emporia, is_incremental) ==
    /\ now = 0
    /\ LET output_filename == OutputFilename(now)
           sensor_data == IF ha = <<>> THEN <<>> ELSE AnalyzeAll(ha)
           ha_analyzed_df == AnalyzeHaDataInternal(sensor_data)
           emporia_hourly_df == ConvertEmporiaToHourlyFormat(emporia)
           combined_df == AddConsumptionAnalysis(
                              ApplyUpstreamDeviceAdjustments(
                                  CombineSources(ha_analyzed_df, emporia_hourly_df)),
                              holidays, FALSE)
           r == PullDataSave(combined_df, is_incremental, table, table_json,
                             archive[output_filename], archive_json[output_filename])
       IN  IF ~puller
           THEN \* HA puller not initialized: pull_data returns at once
                /\ last' = [op |-> "cycle", new_df |-> NoColumnsDF,
                            is_incremental |-> is_incremental,
                            output_filename |-> output_filename,
                            result |-> FALSE, before |-> table,
                            archive_before |-> archive,
                            puller |-> FALSE,
                            ha_hourly |-> FALSE,
                            emporia_hourly |-> emporia_hourly_df.cols]
                /\ UNCHANGED <<table, table_json, archive, archive_json, data,
                               hourly_data>>
           ELSE /\ data' = IF ha = <<>> THEN data ELSE [loaded |-> TRUE, rows |-> ha]
                /\ hourly_data' = sensor_data
                /\ IF ~ha_analyzed_df.cols /\ ~emporia_hourly_df.cols
                   THEN \* no data retrieved from any source
                        /\ last' = [op |-> "cycle", new_df |-> NoColumnsDF,
                                    is_incremental |-> is_incremental,
                                    output_filename |-> output_filename,
                                    result |-> FALSE, before |-> table,
                                    archive_before |-> archive,
                                    puller |-> TRUE,
                                    ha_hourly |-> FALSE,
                                    emporia_hourly |-> FALSE]
                        /\ UNCHANGED <<table, table_json, archive, archive_json>>
                   ELSE /\ table' = r.table
                        /\ table_json' = r.table_json
                        /\ archive' = [archive EXCEPT ![output_filename] = r.archive]
                        /\ archive_json' =
                               [archive_json EXCEPT ![output_filename] = r.archive_json]
                        /\ last' = [op |-> "cycle", new_df |-> combined_df,
                                    is_incremental |-> is_incremental,
                                    output_filename |-> output_filename,
                                    result |-> r.data_pull, before |-> table,
                                    archive_before |-> archive,
                                    puller |-> TRUE,
                                    ha_hourly |-> ha_analyzed_df.cols,
                                    emporia_hourly |-> emporia_hourly_df.cols]
    /\ now' = now + 1
    /\ UNCHANGED <<holidays, latest_analysis, fetch>>

ReconcileNext ==
    \E hs \in Windows, is_incremental \in BOOLEAN, puller \in BOOLEAN :
        \E ha \in HaHistories(hs) \cup {<<>>}, emporia \in EmporiaHistories(hs) \cup {<<>>} :
            PullCycle(puller, ha, emporia, is_incremental)

SpecReconcile == MergeInit /\ [][ReconcileNext]_vars

(***************************************************************************)
(* Properties of the hourly reconstruction.                                *)
(***************************************************************************)
\* the record carries the reset_detected suffix
ResetDetected(r) ==
    \E k \in 1 .. Len(r.data_method) : r.data_method[k] = "reset_detected"

\* C10: in the hourly records of a sensor, which lie at consecutive hours, a
\* record whose cumulative value is more than 0.1 kWh below the one of the
\* previous hour has hourly consumption max(0, cumulative) and is flagged
\* reset_detected, and every other record but the first has max(0, delta);
\* the readings 10.0, 10.5, 0.2, 0.9 give 0, 0.5, 0.2, 0.7 with the flag on
\* the third hour only.
C10_ResetContainment ==
    \A s \in DOMAIN hourly_data :
        LET rows == hourly_data[s].rows
        IN  /\ \A i \in 2 .. Len(rows) :
                  LET cum == rows[i].cumulative_consumption
                      prev == rows[i - 1].cumulative_consumption
                  IN  /\ rows[i].datetime = rows[i - 1].datetime + 1
                      /\ IF cum < prev - 10 * Scale
                         THEN /\ rows[i].hourly_consumption = Max(0, cum)
                              /\ ResetDetected(rows[i])
                         ELSE rows[i].hourly_consumption = Max(0, cum - prev)
            /\ data.rows = ExampleHistory(s) =>
                  /\ [i \in 1 .. Len(rows) |-> rows[i].hourly_consumption]
                         = <<0, 50 * Scale, 20 * Scale, 70 * Scale>>
                  /\ [i \in 1 .. Len(rows) |-> ResetDetected(rows[i])]
                         = <<FALSE, FALSE, TRUE, FALSE>>

\* the readings of the example were reconstructed and the third hour carries
\* the reset flag
C10_Witness ==
    \E s \in DOMAIN hourly_data :
        LET rows == hourly_data[s].rows
        IN  /\ data.rows = ExampleHistory(s)
            /\ Len(rows) = 4
            /\ ResetDetected(rows[3])

(***************************************************************************)
(* Properties of a whole pull cycle.                                       *)
(***************************************************************************)
\* the records of the persisted table
Persisted == IF table.kind = "csv" THEN table.rows ELSE <<>>

\* C9 as stated: no record of the persisted table has a negative
\* hourly_consumption, whether it is reconstructed, adjusted or derived.
C9_NoNegativePersisted ==
    \A i \in 1 .. Len(Persisted) : Persisted[i].hourly_consumption >= 0

\* C9 amended: every record the hourly reconstruction produces has
\* hourly_consumption >= 0 and is persisted with that value; the rows of the
\* Emporia source lowered by the double-count removal and the derived rows
\* are persisted as computed, whatever their sign.
C9_ReconstructedNonNegative ==
    /\ \A s \in DOMAIN hourly_data :
          \A i \in 1 .. Len(hourly_data[s].rows) :
              /\ hourly_data[s].rows[i].hourly_consumption >= 0
              /\ last.op = "cycle" =>
                    \E j \in 1 .. Len(Persisted) :
                        /\ Persisted[j].entity_id = s
                        /\ Persisted[j].data_source = "Home Assistant"
                        /\ ToDatetime(Persisted[j].datetime)
                               = hourly_data[s].rows[i].datetime - HaOffsetHours
                        /\ Persisted[j].hourly_consumption
                               = hourly_data[s].rows[i].hourly_consumption
    /\ \A j \in 1 .. Len(Persisted) :
          Persisted[j].data_source = "Home Assistant"
              => Persisted[j].hourly_consumption >= 0

\* a cycle persisted a reconstructed record of a reset hour next to a
\* negative adjusted row and a negative untracked row
C9_Witness ==
    /\ last.op = "cycle" /\ last.result
    /\ \E j \in 1 .. Len(Persisted) :
          /\ Persisted[j].data_source = "Home Assistant"
          /\ ResetDetected(Persisted[j])
          /\ Persisted[j].hourly_consumption > 0
    /\ \E j \in 1 .. Len(Persisted) :
          /\ Persisted[j].data_source = "Emporia"
          /\ Persisted[j].hourly_consumption < 0
    /\ \E j \in 1 .. Len(Persisted) :
          /\ Persisted[j].data_source = "Analysis"
          /\ Persisted[j].hourly_consumption < 0

(***************************************************************************)
(* Properties of the reconstructed series: exactness, interpolation and    *)
(* reset epochs.                                                           *)
(***************************************************************************)
\* the analysis of the loaded observations has run
Analyzed == last.op = "analyze"

\* the observations of sensor s that lie exactly on an hour
OnTheHour(s) ==
    { i \in 1 .. Len(data.rows) :
        data.rows[i].entity_id = s /\ data.rows[i].last_changed % TicksPerHour = 0 }

\* the records of sensor s (none when the sensor has no frame)
Series(s) == IF s \in DOMAIN hourly_data THEN hourly_data[s].rows ELSE <<>>

\* the records of sensor s at hour h
RecordsAt(s, h) == { j \in 1 .. Len(Series(s)) : Series(s)[j].datetime = h }

\* C11 as stated: at every hour with an observation exactly on it, the
\* reconstructed record has the value of the observation as its
\* cumulative_consumption and data_method equal to exact.
C11_ExactMethodOnly ==
    Analyzed =>
        \A s \in SensorsOf(data.rows) : \A i \in OnTheHour(s) :
            /\ RecordsAt(s, data.rows[i].last_changed \div TicksPerHour) # {}
            /\ \A j \in RecordsAt(s, data.rows[i].last_changed \div TicksPerHour) :
                  /\ Series(s)[j].cumulative_consumption = data.rows[i].state_numeric
                  /\ Series(s)[j].data_method = <<"exact">>

\* C11 amended: at every hour with an observation exactly on it, there is
\* one reconstructed record, its cumulative_consumption is the value of the
\* observation, and its data_method is exact, or exact followed by
\* reset_detected when the hour is declared a reset.
C11_ExactAtObservedHours ==
    Analyzed =>
        \A s \in SensorsOf(data.rows) : \A i \in OnTheHour(s) :
            /\ Cardinality(RecordsAt(s, data.rows[i].last_changed \div TicksPerHour)) = 1
            /\ \A j \in RecordsAt(s, data.rows[i].last_changed \div TicksPerHour) :
                  /\ Series(s)[j].cumulative_consumption = data.rows[i].state_numeric
                  /\ Series(s)[j].data_method
                         \in {<<"exact">>, <<"exact", "reset_detected">>}
                  /\ ResetDetected(Series(s)[j]) <=>
                         /\ j > 1
                         /\ Series(s)[j].cumulative_consumption
                                < Series(s)[j - 1].cumulative_consumption
                                      - Kwh(ResetThreshold)

\* a series with an exact record, an exact record of a reset hour and an
\* interpolated record
C11_Witness ==
    /\ Analyzed
    /\ \E s \in DOMAIN hourly_data :
          /\ \E j \in 1 .. Len(Series(s)) : Series(s)[j].data_method = <<"exact">>
          /\ \E j \in 1 .. Len(Series(s)) :
                Series(s)[j].data_method = <<"exact", "reset_detected">>
          /\ \E j \in 1 .. Len(Series(s)) : Head(Series(s)[j].data_method) = "interpolated"
          /\ OnTheHour(s) # {}

\* the observations of sensor s before and after the instant of hour h
Earlier(s, h) ==
    { i \in 1 .. Len(data.rows) :
        data.rows[i].entity_id = s /\ data.rows[i].last_changed < h * TicksPerHour }

Later(s, h) ==
    { i \in 1 .. Len(data.rows) :
        data.rows[i].entity_id = s /\ data.rows[i].last_changed > h * TicksPerHour }

\* the nearest of them
NearestBefore(s, h) ==
    CHOOSE i \in Earlier(s, h) :
        \A k \in Earlier(s, h) : data.rows[k].last_changed <= data.rows[i].last_changed

NearestAfter(s, h) ==
    CHOOSE i \in Later(s, h) :
        \A k \in Later(s, h) : data.rows[k].last_changed >= data.rows[i].last_changed

\* v lies between a and b, whichever of the two is the larger
Between(v, a, b) == (a <= v /\ v <= b) \/ (b <= v /\ v <= a)

\* C12: a record of an hour without an observation on it, whose nearest
\* observations before and after do not form a reset interval (the later
\* value is not more than 0.1 kWh below the earlier), has a
\* cumulative_consumption between the two values, inclusive.
C12_InterpolationBound ==
    Analyzed =>
        \A s \in DOMAIN hourly_data : \A j \in 1 .. Len(Series(s)) :
            Head(Series(s)[j].data_method) = "interpolated" =>
                LET h == Series(s)[j].datetime
                    before == data.rows[NearestBefore(s, h)].state_numeric
                    after == data.rows[NearestAfter(s, h)].state_numeric
                IN  /\ Earlier(s, h) # {} /\ Later(s, h) # {}
                    /\ after - before >= -Kwh(ResetThreshold)
                           => Between(Series(s)[j].cumulative_consumption, before, after)

\* an interpolated record strictly between a lower and a higher neighbour,
\* and one strictly between a higher and a slightly lower neighbour
C12_Witness ==
    /\ Analyzed
    /\ \E s \in DOMAIN hourly_data : \E j \in 1 .. Len(Series(s)) :
          /\ Head(Series(s)[j].data_method) = "interpolated"
          /\ data.rows[NearestBefore(s, Series(s)[j].datetime)].state_numeric
                 < Series(s)[j].cumulative_consumption
          /\ Series(s)[j].cumulative_consumption
                 < data.rows[NearestAfter(s, Series(s)[j].datetime)].state_numeric
    /\ \E s \in DOMAIN hourly_data : \E j \in 1 .. Len(Series(s)) :
          /\ Head(Series(s)[j].data_method) = "interpolated"
          /\ data.rows[NearestBefore(s, Series(s)[j].datetime)].state_numeric
                 > Series(s)[j].cumulative_consumption
          /\ Series(s)[j].cumulative_consumption
                 > data.rows[NearestAfter(s, Series(s)[j].datetime)].state_numeric

\* C13 as stated: between two records flagged reset_detected, the
\* cumulative_consumption of a sensor never decreases from a record to the
\* next.
C13_NonDecreasingInEpoch ==
    Analyzed =>
        \A s \in DOMAIN hourly_data : \A j \in 2 .. Len(Series(s)) :
            ResetDetected(Series(s)[j])
                \/ Series(s)[j].cumulative_consumption
                       >= Series(s)[j - 1].cumulative_consumption

\* C13 amended: between two records flagged reset_detected, the
\* cumulative_consumption of a sensor never decreases by more than 0.1 kWh
\* from a record to the next; a decrease within that tolerance is kept and
\* the hourly_consumption of the hour is 0.
C13_DecreaseWithinTolerance ==
    Analyzed =>
        \A s \in DOMAIN hourly_data : \A j \in 2 .. Len(Series(s)) :
            \/ ResetDetected(Series(s)[j])
            \/ Series(s)[j].cumulative_consumption
                   >= Series(s)[j - 1].cumulative_consumption
            \/ /\ Series(s)[j].cumulative_consumption
                      >= Series(s)[j - 1].cumulative_consumption - Kwh(ResetThreshold)
               /\ Series(s)[j].hourly_consumption = 0

\* a series with a decrease inside the tolerance that is not flagged, and a
\* series with a larger decrease that is
C13_Witness ==
    /\ Analyzed
    /\ \E s \in DOMAIN hourly_data : \E j \in 2 .. Len(Series(s)) :
          /\ ~ResetDetected(Series(s)[j])
          /\ Series(s)[j].cumulative_consumption < Series(s)[j - 1].cumulative_consumption
    /\ \E s \in DOMAIN hourly_data : \E j \in 2 .. Len(Series(s)) :
          /\ ResetDetected(Series(s)[j])
          /\ \E k \in 1 .. (j - 1) :
                Series(s)[k].cumulative_consumption > Series(s)[j].cumulative_consumption

(***************************************************************************)
(* apply_upstream_device_adjustments as a function of the combined frame.  *)
(* The frames hold, per hour of a window, any of: the row of sensor 1 and  *)
(* the row of the plug (both from Home Assistant) and the row of the       *)
(* upstream channel of sensor 1 (from Emporia).  last.new_df is the frame, *)
(* and after the call last.before is the frame that was passed in.         *)
(***************************************************************************)
\* hourly consumption of the rows of a frame, in 0.01 kWh, per entity
AdjustValues(e) ==
    IF e = 1 THEN {0, 120} ELSE IF e = PlugEntity THEN {50} ELSE {100, 500}

\* a row of the combined frame
SourceRow(t, e, v, data_source, method) ==
    [datetime |-> Strftime(t),
     entity_id |-> e,
     sensor_name |-> SensorNameOf(e),
     cumulative_consumption |-> Kwh(v),
     hourly_consumption |-> Kwh(v),
     data_method |-> <<method>>,
     data_source |-> data_source,
     source |-> "sensor"]

\* which rows an hour has: per entity, whether its row is there and its value
RowChoices ==
    { c \in [{1, PlugEntity, MaxEntity} -> [present : BOOLEAN, v : {0, 50, 100, 120, 500}]] :
        \A e \in DOMAIN c : IF c[e].present THEN c[e].v \in AdjustValues(e) ELSE c[e].v = 0 }

\* the rows of entity e over the hours hs, under the choices ch of the hours
EntityRows(hs, ch, e, data_source, method) ==
    LET present == Ascending({ h \in hs : ch[h][e].present })
    IN  [i \in 1 .. Len(present) |->
            SourceRow(present[i], e, ch[present[i]][e].v, data_source, method)]

\* the combined frames: Home Assistant rows sensor by sensor, then Emporia rows
AllAdjustFrames ==
    UNION { { DF(EntityRows(hs, ch, 1, "Home Assistant", "exact")
                 \o EntityRows(hs, ch, PlugEntity, "Home Assistant", "exact")
                 \o EntityRows(hs, ch, MaxEntity, "Emporia", "emporia_direct")) :
                ch \in [hs -> RowChoices] } : hs \in Windows }

\* pull_data combines only sources that returned records
AdjustFrames == { df \in AllAdjustFrames : ~IsEmpty(df) }

AdjustInit ==
    /\ table = Absent
    /\ table_json = Absent
    /\ archive = [n \in OutputFilenames |-> Absent]
    /\ archive_json = [n \in OutputFilenames |-> Absent]
    /\ now = 0
    /\ data = NotLoaded
    /\ hourly_data = <<>>
    /\ holidays = "loaded"
    /\ latest_analysis = Absent
    /\ fetch = NoFetch
    /\ \E combined_df \in AdjustFrames :
          last = [NoOp EXCEPT !.op = "combined", !.new_df = combined_df]

\* combined_df = self.apply_upstream_device_adjustments(combined_df)
Adjust ==
    /\ last.op = "combined"
    /\ last' = [last EXCEPT !.op = "adjusted",
                            !.before = last.new_df,
                            !.new_df = ApplyUpstreamDeviceAdjustments(last.new_df)]
    /\ UNCHANGED <<table, table_json, archive, archive_json, now, data, hourly_data, holidays, latest_analysis, fetch>>

AdjustNext == Adjust

SpecAdjust == AdjustInit /\ [][AdjustNext]_vars

\* the frame passed to the adjustment and the frame it returned
AdjIn == last.before.rows

AdjOut == last.new_df.rows

\* row k is the row of the mapped sensor e and row i a row of the same hour
\* that bears the name of the upstream device of e
Pair(e, k, i) ==
    /\ AdjIn[k].entity_id = e
    /\ AdjIn[i].sensor_name = UpstreamSensor(e)
    /\ AdjIn[i].datetime = AdjIn[k].datetime

\* C14 as stated: for every mapped entity and every hour at which its row
\* and the row named as its upstream are present, the upstream row is
\* lowered by the hourly_consumption of the entity and the row of the
\* entity is unchanged; without an upstream row, no row is changed.
C14_EveryMappedPair ==
    last.op = "adjusted" =>
        /\ Len(AdjOut) = Len(AdjIn)
        /\ \A e \in MappedEntities : \A k \in 1 .. Len(AdjIn) : \A i \in 1 .. Len(AdjIn) :
              Pair(e, k, i) =>
                  /\ AdjOut[i].hourly_consumption
                         = AdjIn[i].hourly_consumption - AdjIn[k].hourly_consumption
                  /\ AdjOut[k] = AdjIn[k]

\* C14 amended: for every mapped entity and every hour at which its row from
\* Home Assistant and the row from Emporia named as its upstream are
\* present, the upstream row is lowered by the hourly_consumption of the
\* entity (hourly and cumulative, data_method tagged adjusted) and the row
\* of the entity is unchanged, 5.0 and 1.2 giving 3.8 and 1.2; a pair whose
\* upstream row is absent or comes from Home Assistant changes no row.
C14_HaUnderEmporia ==
    last.op = "adjusted" =>
        /\ Len(AdjOut) = Len(AdjIn)
        /\ \A i \in 1 .. Len(AdjIn) :
              LET down == { k \in 1 .. Len(AdjIn) :
                              /\ AdjIn[k].data_source = "Home Assistant"
                              /\ AdjIn[i].data_source = "Emporia"
                              /\ \E e \in MappedEntities : Pair(e, k, i) }
              IN  /\ down = {} => AdjOut[i] = AdjIn[i]
                  /\ \A k \in down :
                        /\ AdjOut[i] =
                              [AdjIn[i] EXCEPT
                                  !.hourly_consumption = @ - AdjIn[k].hourly_consumption,
                                  !.cumulative_consumption = @ - AdjIn[k].hourly_consumption,
                                  !.data_method = @ \o <<"adjusted">>]
                        /\ AdjOut[k] = AdjIn[k]
                        /\ (AdjIn[i].hourly_consumption = Kwh(500)
                               /\ AdjIn[k].hourly_consumption = Kwh(120))
                              => (AdjOut[i].hourly_consumption = Kwh(380)
                                     /\ AdjOut[k].hourly_consumption = Kwh(120))

\* a frame in which 1.2 was taken off an upstream row of 5.0 in one hour,
\* while in another hour the sensor has a row and its upstream has none
C14_Witness ==
    /\ last.op = "adjusted"
    /\ \E i \in 1 .. Len(AdjIn) : \E k \in 1 .. Len(AdjIn) :
          /\ Pair(1, k, i)
          /\ AdjIn[i].hourly_consumption = Kwh(500)
          /\ AdjOut[i].hourly_consumption = Kwh(380)
          /\ AdjOut[k].hourly_consumption = Kwh(120)
    /\ \E k \in 1 .. Len(AdjIn) :
          /\ AdjIn[k].entity_id = 1
          /\ ~\E i \in 1 .. Len(AdjIn) : Pair(1, k, i)
          /\ AdjOut[k] = AdjIn[k]

(***************************************************************************)
(* add_consumption_analysis as a function of the combined frame.  The      *)
(* frames hold, at one hour or at two consecutive hours, any of: the row   *)
(* of sensor 1 (from Home Assistant) and the rows of the main panel, of    *)
(* the solar channel (entity 0) and of the whole-home total (from          *)
(* Emporia).  last.new_df is the frame, and after the call last.before is  *)
(* the frame that was passed in and last.result tells that no exception    *)
(* was raised.                                                             *)
(***************************************************************************)
\* the first hours of the frames: Saturday 2025-10-18 09:00, Monday
\* 2025-10-20 at 06:00, 09:00 and 20:00, and Columbus Day 2025-10-13 09:00
ProbeHours == {21 * 24 + 9, 23 * 24 + 6, 23 * 24 + 9, 23 * 24 + 20, 16 * 24 + 9}

ProbeWindows == { {p} : p \in ProbeHours } \cup { {p, p + 1} : p \in ProbeHours }

\* hourly consumption of the rows of a frame, in 0.01 kWh, per entity
AnalysisValues(e) ==
    IF e = 1 THEN {50, 150} ELSE IF e = 2 THEN {100}
    ELSE IF e = 0 THEN {10} ELSE {200}

\* which rows the hours have: per entity, whether its row is there and its value
AnalysisChoices ==
    { c \in [{0, 1, 2, TotalUsageEntity} -> [present : BOOLEAN, v : {0, 10, 50, 100, 150, 200}]] :
        \A e \in DOMAIN c : IF c[e].present THEN c[e].v \in AnalysisValues(e) ELSE c[e].v = 0 }

\* the combined frames: Home Assistant rows first, then Emporia rows
AllAnalysisFrames ==
    UNION { { LET ch == [h \in hs |-> c]
              IN  DF(EntityRows(hs, ch, 1, "Home Assistant", "exact")
                     \o EntityRows(hs, ch, 2, "Emporia", "emporia_direct")
                     \o EntityRows(hs, ch, 0, "Emporia", "emporia_direct")
                     \o EntityRows(hs, ch, TotalUsageEntity, "Emporia", "emporia_direct")) :
                c \in AnalysisChoices } : hs \in ProbeWindows }

\* pull_data combines only sources that returned records
AnalysisFrames == { df \in AllAnalysisFrames : ~IsEmpty(df) }

AnalysisInit ==
    /\ table = Absent
    /\ table_json = Absent
    /\ archive = [n \in OutputFilenames |-> Absent]
    /\ archive_json = [n \in OutputFilenames |-> Absent]
    /\ now = 0
    /\ data = NotLoaded
    /\ hourly_data = <<>>
    /\ holidays \in HolidayStates
    /\ latest_analysis = Absent
    /\ fetch = NoFetch
    /\ \E combined_df \in AnalysisFrames :
          last = [NoOp EXCEPT !.op = "combined", !.new_df = combined_df]

\* combined_df = self.add_consumption_analysis(combined_df)
Analyse(raised) ==
    /\ last.op = "combined"
    /\ last' = [last EXCEPT !.op = "analysed",
                            !.result = ~raised,
                            !.before = last.new_df,
                            !.new_df = AddConsumptionAnalysis(last.new_df, holidays, raised)]
    /\ UNCHANGED <<table, table_json, archive, archive_json, now, data, hourly_data,
                   holidays, latest_analysis, fetch>>

AnalysisNext == \E raised \in BOOLEAN : Analyse(raised)

SpecAnalysis == AnalysisInit /\ [][AnalysisNext]_vars

\* the frame add_consumption_analysis returned without raising
Reconciled == IF last.op = "analysed" /\ last.result THEN last.new_df.rows ELSE <<>>

\* the rows of the reconciled frame at datetime t that bear the name n
Named(t, n) ==
    { i \in 1 .. Len(Reconciled) :
        Reconciled[i].datetime = t /\ Reconciled[i].sensor_name = n }

\* the sensor rows of the reconciled frame at datetime t: its rows other than
\* the derived ones
SensorRowsAt(t) ==
    { i \in 1 .. Len(Reconciled) :
        Reconciled[i].datetime = t /\ Reconciled[i].data_source # "Analysis" }

\* the sum of hourly_consumption over the rows S of the reconciled frame
RECURSIVE HourlySum(_)
HourlySum(S) ==
    IF S = {} THEN 0
    ELSE LET i == CHOOSE k \in S : TRUE
         IN  Reconciled[i].hourly_consumption + HourlySum(S \ {i})

\* the names of the derived rows
TotalConsumptionName == SensorNameOf(-1)

TotalIndividualName == SensorNameOf(-2)

UntrackedName == SensorNameOf(-3)

\* C15: at every hour of the reconciled frame there is one derived row of
\* each kind, total_consumption is the sum over the main panel and solar
\* rows of the hour, total_individual_sensors the sum over its other sensor
\* rows, and total_consumption - total_individual_sensors = untracked, also
\* when untracked is negative.
C15_AggregateIdentity ==
    \A i \in 1 .. Len(Reconciled) :
        LET t == Reconciled[i].datetime
            total == HourlySum(Named(t, TotalConsumptionName))
            individual == HourlySum(Named(t, TotalIndividualName))
            untracked == HourlySum(Named(t, UntrackedName))
        IN  /\ Cardinality(Named(t, TotalConsumptionName)) = 1
            /\ Cardinality(Named(t, TotalIndividualName)) = 1
            /\ Cardinality(Named(t, UntrackedName)) = 1
            /\ total = HourlySum({ k \in SensorRowsAt(t) :
                                     Reconciled[k].sensor_name \in {MainPanelName, SolarName} })
            /\ individual = HourlySum({ k \in SensorRowsAt(t) :
                                     Reconciled[k].sensor_name \notin {MainPanelName, SolarName} })
            /\ total - individual = untracked

\* a frame of two hours with main panel, solar and a sensor above their sum:
\* untracked is negative
C15_Witness ==
    /\ Cardinality({ Reconciled[i].datetime : i \in 1 .. Len(Reconciled) }) = 2
    /\ \E i \in 1 .. Len(Reconciled) :
          /\ Reconciled[i].sensor_name = UntrackedName
          /\ Reconciled[i].hourly_consumption = Kwh(100 + 10 - 150)
          /\ Named(Reconciled[i].datetime, MainPanelName) # {}
          /\ Named(Reconciled[i].datetime, SolarName) # {}

\* the derived rows of the reconciled frame at datetime t
DerivedAt(t) ==
    { i \in 1 .. Len(Reconciled) :
        Reconciled[i].datetime = t /\ Reconciled[i].data_source = "Analysis" }

\* C16 as stated: for each hour of the filtered frame three derived rows are
\* appended (total_consumption, total_individual_sensors, untracked), each
\* with row_type Total, data_method calculated and the source of a derived
\* row.
C16_ThreeTotalRows ==
    \A i \in 1 .. Len(Reconciled) :
        LET t == Reconciled[i].datetime
        IN  /\ Cardinality(DerivedAt(t)) = 3
            /\ { Reconciled[k].sensor_name : k \in DerivedAt(t) }
                   = {TotalConsumptionName, TotalIndividualName, UntrackedName}
            /\ \A k \in DerivedAt(t) :
                  /\ Reconciled[k].row_type = "Total"
                  /\ Reconciled[k].data_method = <<"calculated">>
                  /\ Reconciled[k].source = "analysis"

\* C16 amended: for each hour of the filtered frame three derived rows are
\* appended after the sensor rows, each with data_method calculated and the
\* source of a derived row; total_consumption and total_individual_sensors
\* have row_type Total and untracked has row_type Individual.
C16_ThreeDerivedRows ==
    \A i \in 1 .. Len(Reconciled) :
        LET t == Reconciled[i].datetime
        IN  /\ Cardinality(DerivedAt(t)) = 3
            /\ { Reconciled[k].sensor_name : k \in DerivedAt(t) }
                   = {TotalConsumptionName, TotalIndividualName, UntrackedName}
            /\ \A k \in DerivedAt(t) :
                  /\ Reconciled[k].row_type =
                         IF Reconciled[k].sensor_name = UntrackedName
                         THEN "Individual" ELSE "Total"
                  /\ Reconciled[k].data_method = <<"calculated">>
                  /\ Reconciled[k].source = "analysis"
                  /\ \A j \in SensorRowsAt(t) : j < k /\ Reconciled[j].source = "sensor"

\* a frame of two hours came back with six derived rows after its sensor rows
C16_Witness ==
    /\ Cardinality({ i \in 1 .. Len(Reconciled) : Reconciled[i].data_source = "Analysis" }) = 6
    /\ Cardinality({ i \in 1 .. Len(Reconciled) : Reconciled[i].data_source # "Analysis" }) = 6

\* C17: every row of the reconciled frame, derived rows included, has the
\* peak flag exactly when its hour of the day is in 7..20, its day is not a
\* Saturday or Sunday, and its day is not a holiday known to the library;
\* with the library missing or raising, exactly when the hour is in 7..20 on
\* a day from Monday to Friday.  Monday 2025-10-20 09:00 is peak, Saturday
\* 2025-10-18 09:00 and Monday 2025-10-20 21:00 are not.
C17_PeakClassification ==
    \A i \in 1 .. Len(Reconciled) :
        LET day == Reconciled[i].datetime[1]
            hour == Reconciled[i].datetime[2]
            \* day 0 is a Saturday and day 1 a Sunday
            weekend == day % 7 \in {0, 1}
            holiday == holidays = "loaded" /\ day \in UsHolidays
        IN  /\ Reconciled[i].peak_hours
                  <=> (hour \in 7 .. 20 /\ ~weekend /\ ~holiday)
            /\ Reconciled[i].datetime = <<23, 9>> => Reconciled[i].peak_hours
            /\ Reconciled[i].datetime = <<21, 9>> => ~Reconciled[i].peak_hours
            /\ Reconciled[i].datetime = <<23, 21>> => ~Reconciled[i].peak_hours

\* on Columbus Day at 09:00 a derived row is flagged when the library is
\* missing; the frame also has a sensor row
C17_Witness ==
    /\ holidays = "missing"
    /\ \E i \in 1 .. Len(Reconciled) :
          /\ Reconciled[i].datetime = <<16, 9>>
          /\ Reconciled[i].data_source = "Analysis"
          /\ Reconciled[i].peak_hours
    /\ \E i \in 1 .. Len(Reconciled) : Reconciled[i].data_source # "Analysis"

\* C18 as stated: no row of the whole-home total channel or of the grid
\* balance channel is in the frame add_consumption_analysis returns, on any
\* of its paths.
C18_NoExcludedRows ==
    last.op = "analysed" =>
        \A i \in 1 .. Len(last.new_df.rows) :
            last.new_df.rows[i].entity_id \notin ExcludedEntities

(***************************************************************************)
(* Properties of a cycle with a failing source.                            *)
(***************************************************************************)
\* the rows of the frame the last cycle saved that come from data_source
CycleRowsFrom(data_source) ==
    { i \in 1 .. Len(last.new_df.rows) : last.new_df.rows[i].data_source = data_source }

\* C19 as stated: a cycle in which exactly one source fails entirely
\* (unavailable, not initialized, or without data) and the other has hourly
\* data goes on with the other source alone, derives the aggregates from it
\* and does not report failure; a cycle reports failure for lack of data
\* only when both sources have nothing.
C19_OneSourceSuffices ==
    last.op = "cycle" =>
        /\ (last.emporia_hourly /\ ~last.ha_hourly) =>
              /\ last.result
              /\ CycleRowsFrom("Emporia") # {}
              /\ CycleRowsFrom("Home Assistant") = {}
              /\ CycleRowsFrom("Analysis") # {}
        /\ (last.ha_hourly /\ ~last.emporia_hourly) =>
              /\ last.result
              /\ CycleRowsFrom("Home Assistant") # {}
              /\ CycleRowsFrom("Emporia") = {}
              /\ CycleRowsFrom("Analysis") # {}
        /\ ~last.result => (~last.ha_hourly /\ ~last.emporia_hourly)

\* the same holds of the cycles that start with self.puller set
OneSourceSufficesWithPuller ==
    (last.op = "cycle" /\ last.puller) => C19_OneSourceSuffices

(***************************************************************************)
(* The add-on run (addon_runner.main): one scheduled run of the add-on     *)
(* chooses its mode from the snapshot output/latest_analysis.csv, pulls    *)
(* its window, saves through pull_data and refreshes the snapshot.         *)
(***************************************************************************)
\* the last hour the clock of a run reaches
MaxClock == 8

\* the hours at which the scheduler starts a run: the last hours of the clock
RunHours == { h \in 1 .. MaxClock : h + 3 >= MaxClock }

\* datetime(2025, 9, 27, 0, 0, 0), the start of the initial historical pull
InceptionHour == 0

\* timedelta(hours=6), the overlap of an incremental pull
OverlapHours == 6

\* variant: the oldest timestamp of the table
GetLatestTimestampFromAnalysis_Earliest(tbl) ==
    IF tbl.kind # "csv" \/ tbl.rows = <<>>
    THEN None
    ELSE LET df == ParseDatetimeColumn(tbl.rows)
         IN  Some(CHOOSE t \in { df[i].datetime : i \in 1 .. Len(df) } :
                      \A i \in 1 .. Len(df) : t <= df[i].datetime)

\* get_latest_timestamp_from_analysis: df['datetime'].max() of
\* energy_analysis.csv, None when the file is absent, empty, without a
\* datetime column, or when reading or parsing it raises
GetLatestTimestampFromAnalysis(tbl) ==
    IF tbl.kind # "csv" \/ tbl.rows = <<>>
    THEN None
    ELSE LET df == ParseDatetimeColumn(tbl.rows)
         IN  Some(CHOOSE t \in { df[i].datetime : i \in 1 .. Len(df) } :
                      \A i \in 1 .. Len(df) : t >= df[i].datetime)

\* is_first_run = not os.path.exists(existing_analysis)
IsFirstRun(snapshot) == snapshot.kind = "absent"

\* start_date of the run whose clock reads end_date
StartDate(snapshot, tbl, end_date) ==
    LET latest_timestamp == GetLatestTimestampFromAnalysis(tbl)
    IN  IF IsFirstRun(snapshot) THEN InceptionHour
        ELSE IF latest_timestamp.some THEN latest_timestamp.value - OverlapHours
        ELSE end_date - OverlapHours

\* the hours of start_date .. end_date the sources hold records of: their
\* records begin at oldest, and none is older than the inception
PulledHours(start_date, end_date, oldest) ==
    { h \in start_date .. end_date : h >= oldest /\ h >= InceptionHour }

\* variant: the snapshot is never refreshed
CopyLatest_Never(result, tbl, snapshot) == snapshot

\* the snapshot after the run: shutil.copy2 of energy_analysis.csv when the
\* pull succeeded and the file exists
CopyLatest(result, tbl, snapshot) ==
    IF result /\ tbl.kind # "absent" THEN tbl ELSE snapshot

\* before the first run: no file, and the clock at the inception
RunInit ==
    /\ table = Absent
    /\ table_json = Absent
    /\ archive = [n \in OutputFilenames |-> Absent]
    /\ archive_json = [n \in OutputFilenames |-> Absent]
    /\ now = 0
    /\ last = [op |-> "none", end_date |-> InceptionHour]
    /\ data = NotLoaded
    /\ hourly_data = <<>>
    /\ holidays = "loaded"
    /\ latest_analysis = Absent
    /\ fetch = NoFetch

\* one run of the add-on at the hour end_date; the sources answer (yields)
\* with the records they hold from the hour oldest on
Run(end_date, oldest, yields) ==
    /\ now < MaxOps
    /\ end_date > last.end_date
    /\ LET is_first_run == IsFirstRun(latest_analysis)
           start_date == StartDate(latest_analysis, table, end_date)
           is_incremental == ~is_first_run
           output_filename == OutputFilename(now)
           hs == PulledHours(start_date, end_date, oldest)
           combined_df == DF(BatchRows(hs, EntityIds, now + 1, FALSE))
           saved == PullDataSave(combined_df, is_incremental, table, table_json,
                                 archive[output_filename],
                                 archive_json[output_filename])
           result == yields /\ saved.data_pull
       IN  /\ table' = IF yields THEN saved.table ELSE table
           /\ table_json' = IF yields THEN saved.table_json ELSE table_json
           /\ archive' = IF yields
                         THEN [archive EXCEPT ![output_filename] = saved.archive]
                         ELSE archive
           /\ archive_json' = IF yields
                              THEN [archive_json EXCEPT
                                       ![output_filename] = saved.archive_json]
                              ELSE archive_json
           /\ latest_analysis' = CopyLatest(result, table', latest_analysis)
           /\ last' = [op |-> "run", end_date |-> end_date,
                       is_first_run |-> is_first_run, start_date |-> start_date,
                       is_incremental |-> is_incremental,
                       new_df |-> IF yields THEN combined_df ELSE NoColumnsDF,
                       result |-> result, before |-> table,
                       snapshot_before |-> latest_analysis,
                       after_success |->
                           last.op = "run" /\ (last.result \/ last.after_success)]
    /\ now' = now + 1
    /\ UNCHANGED <<data, hourly_data, holidays, fetch>>

\* between two runs the environment removes the table, empties it, or leaves
\* it in a state that cannot be parsed
TableDamage(k) ==
    /\ last.op = "run"
    /\ table.kind = "csv"
    /\ table' = IF k = "absent" THEN Absent
                ELSE IF k = "empty" THEN CsvFile(<<>>) ELSE Damaged(k)
    /\ last' = [op |-> "external", end_date |-> last.end_date]
    /\ UNCHANGED <<table_json, archive, archive_json, now, data, hourly_data,
                   holidays, latest_analysis, fetch>>

\* between two runs the environment removes the snapshot
SnapshotRemoved ==
    /\ last.op = "run"
    /\ latest_analysis.kind # "absent"
    /\ latest_analysis' = Absent
    /\ last' = [op |-> "external", end_date |-> last.end_date]
    /\ UNCHANGED <<table, table_json, archive, archive_json, now, data,
                   hourly_data, holidays, fetch>>

RunNext ==
    \/ \E end_date \in RunHours, yields \in BOOLEAN :
          \E oldest \in {InceptionHour, end_date - 1} : Run(end_date, oldest, yields)
    \/ \E k \in DamageKinds \cup {"absent", "empty"} : TableDamage(k)
    \/ SnapshotRemoved

SpecRun == RunInit /\ [][RunNext]_vars

(***************************************************************************)
(* Properties of the mode selection.                                       *)
(***************************************************************************)
\* the last step was a run of the add-on
Ran == last.op = "run"

\* the file holds at least one record with a timestamp
HasTimestamps(f) == f.kind = "csv" /\ f.rows # <<>>

\* start_date lies OverlapHours before the newest record of the file
SeededFrom(f, start_date) ==
    /\ \E i \in 1 .. Len(f.rows) :
          ToDatetime(f.rows[i].datetime) = start_date + OverlapHours
    /\ \A i \in 1 .. Len(f.rows) :
          ToDatetime(f.rows[i].datetime) <= start_date + OverlapHours

\* after holds the batch and the records of before at the hours the batch
\* does not cover
MergedInto(before, batch, after) ==
    /\ after.kind = "csv"
    /\ RowsOf(after.rows) =
          { r \in RowsOf(before.rows) : r.datetime \notin DatetimesOf(batch.rows) }
              \cup RowsOf(batch.rows)

\* the mode follows the snapshot, and a first run starts at the inception,
\* does not merge and leaves the batch alone in the table
FirstRunRule ==
    /\ last.is_first_run <=> last.snapshot_before.kind = "absent"
    /\ last.is_incremental <=> ~last.is_first_run
    /\ last.is_first_run =>
          /\ last.start_date = InceptionHour
          /\ last.result =>
                (table.kind = "csv" /\ RowsOf(table.rows) = RowsOf(last.new_df.rows))

\* C20 as stated: a run without snapshot is a first run that pulls from the
\* inception and does not merge; a run with the snapshot is incremental, its
\* pull starts exactly 6 hours before the latest timestamp of the persisted
\* table, and its result is merged into the table.
C20_SeededFromTable ==
    Ran =>
       /\ FirstRunRule
       /\ ~last.is_first_run =>
             /\ SeededFrom(last.before, last.start_date)
             /\ last.result => MergedInto(last.before, last.new_df, table)

\* C20: a run without snapshot is a first run that pulls from the inception
\* and does not merge; a run with the snapshot is incremental and its result
\* is merged into the table; its pull starts 6 hours before the latest
\* timestamp of the persisted table when the table holds one, and 6 hours
\* before the clock of the run when the table is absent, empty or unreadable.
C20_ModeSelection ==
    Ran =>
       /\ FirstRunRule
       /\ ~last.is_first_run =>
             /\ IF HasTimestamps(last.before)
                THEN SeededFrom(last.before, last.start_date)
                ELSE last.start_date = last.end_date - OverlapHours
             /\ last.result => MergedInto(last.before, last.new_df, table)

\* an incremental run that succeeded, seeded after the inception and more
\* than the overlap before its clock, with records of the earlier table kept
\* beside those of its batch
C20_Witness ==
    /\ Ran
    /\ ~last.is_first_run
    /\ last.result
    /\ HasTimestamps(last.before)
    /\ last.start_date > InceptionHour
    /\ last.start_date + OverlapHours < last.end_date
    /\ RowsOf(last.before.rows) \cap RowsOf(table.rows) # {}
    /\ RowsOf(last.new_df.rows) \cap RowsOf(table.rows) # {}

\* a first run over a table left by earlier runs: the table is overwritten
FirstRunOverwrites ==
    /\ Ran
    /\ last.is_first_run
    /\ last.result
    /\ HasTimestamps(last.before)
    /\ { r \in RowsOf(last.before.rows) :
           r.datetime \notin DatetimesOf(last.new_df.rows) } # {}

\* an incremental run whose table holds no timestamp
FallbackStart == Ran /\ ~last.is_first_run /\ ~HasTimestamps(last.before)

(***************************************************************************)
(* The Emporia fetch (fetch_emporia_data_with_protection and               *)
(* fetch_emporia_data_chunked), step by step: the main thread, the worker  *)
(* thread of the single fetch, and the calls of                            *)
(* EmporiaDataPuller.get_history_data they make.  Time is in hours since   *)
(* the inception.                                                          *)
(***************************************************************************)
\* the latest end of a fetch
MaxFetchEnd == 50

\* emporia_service_start = datetime(2025, 9, 27)
EmporiaServiceStart == InceptionHour

\* total_hours > 48: the request is chunked at once
LargeRequestHours == 48

\* chunk_hours=24, the default of fetch_emporia_data_chunked
ChunkHours == 24

Min(a, b) == IF a <= b THEN a ELSE b

\* variant: the start is used as given
ClipStart_Keep(start_date) == start_date

\* start_date.replace(year=2025, month=9, day=27, hour=0, ...) when the start
\* lies before the service start
ClipStart(start_date) ==
    IF start_date < EmporiaServiceStart THEN EmporiaServiceStart ELSE start_date

\* variant: every chunk is chunk_hours long
ChunkEnd_Whole(current_start, chunk_hours, end_date) == current_start + chunk_hours

\* chunk_end = min(current_start + timedelta(hours=chunk_hours), end_date)
ChunkEnd(current_start, chunk_hours, end_date) ==
    Min(current_start + chunk_hours, end_date)

\* what a call of get_history_data(start_date, end_date) returns when the
\* service answers: one record of the channel for every hour from start_date
\* on that begins before end_date
GetHistoryData(start_date, end_date) ==
    [j \in 1 .. (end_date - start_date) |->
        EmporiaRecord(MaxEntity, start_date + j - 1, 10)]

\* how a call of get_history_data ends: with records, with an empty list, or
\* with an exception
Outcomes == {"data", "empty", "raises"}

\* chunk_data of a call that ended with outcome
ChunkData(outcome, start_date, end_date) ==
    IF outcome = "data" THEN GetHistoryData(start_date, end_date) ELSE <<>>

\* variant: a chunk that fails discards what the earlier chunks returned
ExtendAllData_Reset(all_data, chunk_data) ==
    IF chunk_data # <<>> THEN all_data \o chunk_data ELSE <<>>

\* if chunk_data: all_data.extend(chunk_data); a chunk that raised or
\* returned nothing leaves all_data as it is
ExtendAllData(all_data, chunk_data) ==
    IF chunk_data # <<>> THEN all_data \o chunk_data ELSE all_data

\* a call of get_history_data, as the fetch records it
Request(start_date, end_date, strategy) ==
    [start |-> start_date, end |-> end_date, strategy |-> strategy,
     outcome |-> "pending"]

\* the value a fetch returns: None, or a list of records
NoData == [none |-> TRUE, records |-> <<>>]

Records(rs) == [none |-> FALSE, records |-> rs]

\* the fetch at the head of the while loop of fetch_emporia_data_chunked:
\* the next chunk when current_start < end_date, and otherwise
\* return all_data if all_data else None
LoopHead(f) ==
    IF f.current_start < f.end_date
    THEN [f EXCEPT !.pc = "chunk"]
    ELSE [f EXCEPT !.pc = "done",
                   !.result = IF f.all_data = <<>> THEN NoData
                              ELSE Records(f.all_data)]

\* the entry of fetch_emporia_data_chunked(start_date, end_date, chunk_hours)
\* in the fetch f: the puller check, the clipping, and the head of the loop
EnterChunked(f, start_date, end_date, chunk_hours) ==
    IF ~f.available \/ end_date < EmporiaServiceStart
    THEN [f EXCEPT !.pc = "done", !.result = NoData]
    ELSE LoopHead([f EXCEPT !.start_date = ClipStart(start_date),
                            !.end_date = end_date,
                            !.chunk_hours = chunk_hours,
                            !.current_start = ClipStart(start_date),
                            !.all_data = <<>>])

\* a fetch called with [start_date, end_date): nothing requested yet
NewFetch(start_date, end_date, available) ==
    [pc |-> "idle", args |-> [start |-> start_date, end |-> end_date],
     available |-> available, start_date |-> start_date, end_date |-> end_date,
     chunk_hours |-> ChunkHours, current_start |-> start_date,
     requests |-> <<>>, all_data |-> <<>>, result |-> NoData,
     worker |-> "none", worker_data |-> NoData, timed_out |-> FALSE]

\* fetch_emporia_data_with_protection(start_date, end_date) up to
\* fetch_thread.start() of the single fetch, or to the chunked fetch of a
\* large request
FetchEmporiaDataWithProtection(start_date, end_date, available) ==
    /\ fetch.pc = "idle"
    /\ LET f == NewFetch(start_date, end_date, available)
           clipped == ClipStart(start_date)
       IN  fetch' =
             IF ~available \/ end_date < EmporiaServiceStart
             THEN [f EXCEPT !.pc = "done"]
             ELSE IF end_date - clipped > LargeRequestHours
             THEN EnterChunked(f, clipped, end_date, ChunkHours)
             ELSE [f EXCEPT !.pc = "join", !.start_date = clipped,
                            !.worker = "running",
                            !.requests = <<Request(clipped, end_date, "single")>>]
    /\ UNCHANGED <<table, table_json, archive, archive_json, now, last, data,
                   hourly_data, holidays, latest_analysis>>

\* the worker thread ends before the deadline: fetch_thread.join returns,
\* and the main thread returns result['data'], or falls back to the chunked
\* fetch when the call raised
WorkerReturns(outcome) ==
    /\ fetch.pc = "join"
    /\ fetch.worker = "running"
    /\ LET returned == ChunkData(outcome, fetch.start_date, fetch.end_date)
           f == [fetch EXCEPT !.worker = "finished",
                              !.requests[1].outcome = outcome,
                              !.worker_data = IF outcome = "raises" THEN NoData
                                              ELSE Records(returned)]
       IN  fetch' =
             IF outcome = "raises"
             THEN EnterChunked(f, f.start_date, f.end_date, ChunkHours)
             ELSE [f EXCEPT !.pc = "done", !.result = f.worker_data]
    /\ UNCHANGED <<table, table_json, archive, archive_json, now, last, data,
                   hourly_data, holidays, latest_analysis>>

\* fetch_thread.join(timeout=300) returns with the thread alive: the main
\* thread goes on with the chunked fetch; nothing stops the worker thread
Deadline ==
    /\ fetch.pc = "join"
    /\ fetch.worker = "running"
    /\ fetch' = EnterChunked([fetch EXCEPT !.timed_out = TRUE],
                             fetch.start_date, fetch.end_date, ChunkHours)
    /\ UNCHANGED <<table, table_json, archive, archive_json, now, last, data,
                   hourly_data, holidays, latest_analysis>>

\* the worker thread left behind by the deadline ends: its call returns into
\* the result dict of the closure, which no one reads any more
WorkerLate(outcome) ==
    /\ fetch.pc \in {"chunk", "chunk_call", "done"}
    /\ fetch.worker = "running"
    /\ fetch' = [fetch EXCEPT
                    !.worker = "finished",
                    !.requests[1].outcome = outcome,
                    !.worker_data =
                        IF outcome = "raises" THEN NoData
                        ELSE Records(ChunkData(outcome, fetch.requests[1].start,
                                               fetch.requests[1].end))]
    /\ UNCHANGED <<table, table_json, archive, archive_json, now, last, data,
                   hourly_data, holidays, latest_analysis>>

\* a direct call of fetch_emporia_data_chunked
FetchEmporiaDataChunked(start_date, end_date, chunk_hours, available) ==
    /\ fetch.pc = "idle"
    /\ fetch' = EnterChunked(NewFetch(start_date, end_date, available),
                             start_date, end_date, chunk_hours)
    /\ UNCHANGED <<table, table_json, archive, archive_json, now, last, data,
                   hourly_data, holidays, latest_analysis>>

\* the body of the while loop up to the call of get_history_data
ChunkSend ==
    /\ fetch.pc = "chunk"
    /\ LET chunk_end == ChunkEnd(fetch.current_start, fetch.chunk_hours,
                                 fetch.end_date)
       IN  fetch' = [fetch EXCEPT
                        !.pc = "chunk_call",
                        !.requests = Append(@, Request(fetch.current_start,
                                                       chunk_end, "chunked"))]
    /\ UNCHANGED <<table, table_json, archive, archive_json, now, last, data,
                   hourly_data, holidays, latest_analysis>>

\* the call of the chunk ends: the rest of the body, and the loop test
ChunkReceive(outcome) ==
    /\ fetch.pc = "chunk_call"
    /\ LET n == Len(fetch.requests)
           chunk == fetch.requests[n]
           chunk_data == ChunkData(outcome, chunk.start, chunk.end)
       IN  fetch' = LoopHead([fetch EXCEPT
                                 !.requests[n].outcome = outcome,
                                 !.all_data = ExtendAllData(@, chunk_data),
                                 !.current_start = chunk.end])
    /\ UNCHANGED <<table, table_json, archive, archive_json, now, last, data,
                   hourly_data, holidays, latest_analysis>>

\* the windows pull_data asks for, after adjust_datetime_for_service_request
FetchStarts == {-3, 0, 2}

FetchEnds == {-1, 0, 8, 30, MaxFetchEnd}

\* the direct calls of the chunked fetch: start, end and chunk_hours
ChunkedCalls ==
    { c \in FetchStarts \X FetchEnds \X {3, ChunkHours} :
        c[1] < c[2] /\ (c[3] = ChunkHours \/ c[2] <= 8) }

\* the windows of a fetch
FetchWindows == { w \in FetchStarts \X FetchEnds : w[1] < w[2] }

FetchNext ==
    \/ \E w \in FetchWindows, available \in BOOLEAN :
          FetchEmporiaDataWithProtection(w[1], w[2], available)
    \/ \E outcome \in Outcomes : WorkerReturns(outcome)
    \/ Deadline
    \/ \E outcome \in Outcomes : WorkerLate(outcome)
    \/ \E c \in ChunkedCalls, available \in BOOLEAN :
          FetchEmporiaDataChunked(c[1], c[2], c[3], available)
    \/ ChunkSend
    \/ \E outcome \in Outcomes : ChunkReceive(outcome)

SpecFetch == MergeInit /\ [][FetchNext]_vars

\* every call of get_history_data returns or raises, and the deadline passes
SpecFetchFair == SpecFetch /\ WF_vars(FetchNext)

(***************************************************************************)
(* Properties of the Emporia fetch.                                        *)
(***************************************************************************)
\* a fetch has been called
Fetching == fetch.pc # "idle"

\* the calls of get_history_data the chunked fetch has made so far
ChunkRequests == SelectSeq(fetch.requests, LAMBDA r : r.strategy = "chunked")

\* C21: no call of get_history_data starts before the service inception, on
\* the single fetch, the chunked fetch of a large request, the fallback after
\* the deadline and the fallback after an error alike; a start before the
\* inception is clipped to the inception, and a window that ends before the
\* inception returns no data without any call.
C21_NoRequestBeforeInception ==
    Fetching =>
       /\ \A i \in 1 .. Len(fetch.requests) :
             fetch.requests[i].start >= EmporiaServiceStart
       /\ (fetch.args.start < EmporiaServiceStart /\ fetch.requests # <<>>) =>
             fetch.requests[1].start = EmporiaServiceStart
       /\ fetch.args.end < EmporiaServiceStart =>
             /\ fetch.requests = <<>>
             /\ fetch.pc = "done"
             /\ fetch.result.none

\* a fetch called with a start before the inception that went through the
\* single fetch, its deadline and the chunked fallback
C21_Witness ==
    /\ fetch.pc = "done"
    /\ fetch.args.start < EmporiaServiceStart
    /\ fetch.timed_out
    /\ Len(fetch.requests) >= 2
    /\ fetch.requests[1].strategy = "single"
    /\ fetch.requests[2].strategy = "chunked"
    /\ fetch.requests[2].start = EmporiaServiceStart

\* C22: once the single fetch has exceeded its deadline, no later call asks
\* for the window of the single fetch again; every later call belongs to the
\* chunked fetch and covers a window of chunk_hours of the original range.
C22_NoRepeatAfterTimeout ==
    (Fetching /\ fetch.timed_out) =>
       \A i \in 2 .. Len(fetch.requests) :
          /\ fetch.requests[i].strategy = "chunked"
          /\ fetch.requests[1].start <= fetch.requests[i].start
          /\ fetch.requests[i].end <= fetch.requests[1].end
          /\ <<fetch.requests[i].start, fetch.requests[i].end>>
                # <<fetch.requests[1].start, fetch.requests[1].end>>

\* the calls of get_history_data that have not returned yet
InFlight ==
    (IF Fetching /\ fetch.worker = "running" THEN 1 ELSE 0)
        + (IF fetch.pc = "chunk_call" THEN 1 ELSE 0)

\* C23: the single fetch is one cancellable unit: after its deadline the
\* timed-out call no longer runs, so no two calls are ever in flight at once,
\* and what the timed-out call returns late never reaches the result.
C23_OneRequestInFlight ==
    /\ InFlight <= 1
    /\ (Fetching /\ fetch.timed_out) =>
          /\ fetch.worker # "running"
          /\ \A i \in 1 .. Len(fetch.result.records) :
                \E j \in 2 .. Len(fetch.requests) :
                   /\ fetch.requests[j].outcome = "data"
                   /\ fetch.requests[j].start <= fetch.result.records[i].last_changed
                   /\ fetch.result.records[i].last_changed < fetch.requests[j].end

\* the records of the chunks that succeeded, in chunk order
SucceededChunks ==
    Flatten([i \in 1 .. Len(ChunkRequests) |->
                IF ChunkRequests[i].outcome = "data"
                THEN GetHistoryData(ChunkRequests[i].start, ChunkRequests[i].end)
                ELSE <<>>])

\* C24: in the chunked fetch a chunk whose call raises or returns nothing is
\* skipped and every later chunk is still requested; the result is the
\* concatenation, in chunk order, of the records of exactly the chunks that
\* succeeded, and no data only when none did.
C24_PartialFailureTolerance ==
    (fetch.pc = "done" /\ ChunkRequests # <<>>) =>
       /\ ChunkRequests[Len(ChunkRequests)].end = fetch.end_date
       /\ \A i \in 1 .. Len(ChunkRequests) - 1 :
             ChunkRequests[i + 1].start = ChunkRequests[i].end
       /\ fetch.result.records = SucceededChunks
       /\ fetch.result.none <=>
             \A i \in 1 .. Len(ChunkRequests) : ChunkRequests[i].outcome # "data"

\* a chunked fetch of three chunks: one raised, one returned nothing, and a
\* chunk after a failed one returned records
C24_Witness ==
    /\ fetch.pc = "done"
    /\ Len(ChunkRequests) >= 3
    /\ \E i, j, k \in 1 .. Len(ChunkRequests) :
          /\ ChunkRequests[i].outcome = "raises"
          /\ ChunkRequests[k].outcome = "empty"
          /\ ChunkRequests[j].outcome = "data"
          /\ i < j
    /\ ~fetch.result.none

\* the windows the chunked fetch has asked for are contiguous, none is empty
\* or longer than chunk_hours, the first starts at the clipped start, and
\* when the fetch is over the last ends at end_date
ChunksPartition ==
    Fetching =>
       /\ \A i \in 1 .. Len(ChunkRequests) :
             /\ ChunkRequests[i].start < ChunkRequests[i].end
             /\ ChunkRequests[i].end - ChunkRequests[i].start <= fetch.chunk_hours
             /\ i > 1 => ChunkRequests[i].start = ChunkRequests[i - 1].end
       /\ ChunkRequests # <<>> =>
             ChunkRequests[1].start
                = (IF fetch.args.start < EmporiaServiceStart
                   THEN EmporiaServiceStart ELSE fetch.args.start)
       /\ (fetch.pc = "done" /\ ChunkRequests # <<>>) =>
             ChunkRequests[Len(ChunkRequests)].end = fetch.args.end

\* C28: fetch_emporia_data_chunked terminates, and the windows it requests
\* partition the range: contiguous, not overlapping, the first at the start
\* (after the clipping to the inception), the last ending at the end, none
\* longer than chunk_hours.
C28_ChunkedPartition == [](ChunksPartition) /\ <>(fetch.pc = "done")

\* a direct chunked fetch from before the inception that is over after three
\* chunks or more, the last of them shorter than chunk_hours
C28_Witness ==
    /\ fetch.pc = "done"
    /\ fetch.worker = "none"
    /\ fetch.args.start < EmporiaServiceStart
    /\ Len(ChunkRequests) >= 3
    /\ ChunkRequests[Len(ChunkRequests)].end - ChunkRequests[Len(ChunkRequests)].start
          < fetch.chunk_hours

(***************************************************************************)
(* Raw records.  The state of a raw record is a string: the decimal text   *)
(* of a reading, or a word such as 'unavailable' or 'unknown'.             *)
(***************************************************************************)
\* the state str(c / 100) of a reading of c hundredths of a kWh
NumberText(c) == [kind |-> "number", text |-> c]

\* the state 'unavailable'
Unavailable == [kind |-> "word", text |-> 0]

\* one raw record of a source
RawRecord(e, t, state) == [entity_id |-> e, last_changed |-> t, state |-> state]

\* pd.to_numeric(state, errors='coerce') and float(state): the number the
\* text stands for, when it stands for one
ToNumeric(state) ==
    IF state.kind = "number" THEN Some(Kwh(state.text)) ELSE None

\* load_data on raw history: state_numeric is the state coerced to a number,
\* and dropna(subset=['state_numeric']) keeps the records that have one
LoadRawData(raw) ==
    LET valid == SelectSeq(raw, LAMBDA r : ToNumeric(r.state).some)
    IN  [i \in 1 .. Len(valid) |->
            [entity_id |-> valid[i].entity_id,
             last_changed |-> valid[i].last_changed,
             state_numeric |-> ToNumeric(valid[i].state).value]]

\* convert_emporia_to_hourly_format on raw records: float(record['state'])
\* raises on a word, and the except clause of the function returns None
ConvertEmporiaRecords(emporia_data) ==
    IF \E i \in 1 .. Len(emporia_data) : ~ToNumeric(emporia_data[i].state).some
    THEN NoColumnsDF
    ELSE ConvertEmporiaToHourlyFormat(
            [i \in 1 .. Len(emporia_data) |->
                [entity_id |-> emporia_data[i].entity_id,
                 last_changed |-> emporia_data[i].last_changed,
                 state |-> ToNumeric(emporia_data[i].state).value]])

\* the hours of the raw records
RawHours == 0 .. MaxHour + 1

\* the readings of the raw records of an entity, hour by hour
RawReading(e, h) == 10 * (h + 1) + e

\* the raw histories of a source with the entities es: a record of every
\* entity at every hour, entity by entity, any of them with a word as state
RawHistories(es, ticks_per_hour) ==
    { Flatten([i \in 1 .. Len(Ascending(es)) |->
                 [j \in 1 .. Len(Ascending(RawHours)) |->
                     RawRecord(Ascending(es)[i],
                               Ascending(RawHours)[j] * ticks_per_hour,
                               IF <<Ascending(es)[i], Ascending(RawHours)[j]>> \in bad
                               THEN Unavailable
                               ELSE NumberText(RawReading(Ascending(es)[i],
                                                          Ascending(RawHours)[j])))]]) :
        bad \in SUBSET (es \X RawHours) }

\* load_data() and analyze_all_sensors() on the raw history of Home Assistant
LoadAndAnalyze(raw) ==
    /\ last.op = "none"
    /\ data' = [loaded |-> TRUE, rows |-> LoadRawData(raw)]
    /\ hourly_data' = AnalyzeAll(LoadRawData(raw))
    /\ last' = [op |-> "load_raw", before |-> raw, result |-> TRUE,
                new_df |-> NoColumnsDF]
    /\ UNCHANGED <<table, table_json, archive, archive_json, now, holidays,
                   latest_analysis, fetch>>

\* convert_emporia_to_hourly_format(emporia_history_data)
ConvertEmporia(raw) ==
    /\ last.op = "none"
    /\ last' = [op |-> "convert_raw", before |-> raw,
                result |-> ConvertEmporiaRecords(raw).cols,
                new_df |-> ConvertEmporiaRecords(raw)]
    /\ UNCHANGED <<table, table_json, archive, archive_json, now, data,
                   hourly_data, holidays, latest_analysis, fetch>>

RawNext ==
    \/ \E raw \in RawHistories(MappedEntities, TicksPerHour) : LoadAndAnalyze(raw)
    \/ \E raw \in RawHistories({MaxEntity - 1, MaxEntity}, 1) : ConvertEmporia(raw)

SpecRaw == HourlyInit /\ [][RawNext]_vars

\* the records of raw whose state is the text of a number
Parseable(raw) == SelectSeq(raw, LAMBDA r : r.state.kind = "number")

\* the Home Assistant stage keeps the parseable records of every sensor as
\* observations and builds the hourly records from them
NonNumericDroppedHa ==
    last.op = "load_raw" =>
       /\ last.result
       /\ Len(data.rows) = Len(Parseable(last.before))
       /\ \A i \in 1 .. Len(data.rows) :
             /\ data.rows[i].entity_id = Parseable(last.before)[i].entity_id
             /\ data.rows[i].last_changed = Parseable(last.before)[i].last_changed
             /\ data.rows[i].state_numeric = Kwh(Parseable(last.before)[i].state.text)
       /\ hourly_data = AnalyzeAll(data.rows)
       /\ \A e \in SensorsOf(data.rows) : e \in DOMAIN hourly_data

\* the Emporia stage turns every parseable record into an hourly record
NonNumericDroppedEmporia ==
    last.op = "convert_raw" =>
       /\ Len(last.new_df.rows) = Len(Parseable(last.before))
       /\ \A i \in 1 .. Len(last.new_df.rows) :
             /\ last.new_df.rows[i].entity_id = Parseable(last.before)[i].entity_id
             /\ last.new_df.rows[i].hourly_consumption
                   = Kwh(Parseable(last.before)[i].state.text)

\* C25: for either source a raw record whose state is not the text of a
\* number is dropped on its own: the other records of its entity and of the
\* other entities of the source become observations and hourly records, and
\* the stage does not fail.
C25_NonNumericDropped == NonNumericDroppedHa /\ NonNumericDroppedEmporia

\* a Home Assistant history with a word among the states of one sensor, and
\* hourly records of both sensors
NonNumericHaReached ==
    /\ last.op = "load_raw"
    /\ Len(data.rows) < Len(last.before)
    /\ \A e \in MappedEntities : e \in DOMAIN hourly_data

(***************************************************************************)
(* Alignment of the Emporia source: the window of the request is moved to  *)
(* UTC, the service is asked hour by hour, and the timestamps of the       *)
(* records are moved back.  US/Central leaves daylight saving time on      *)
(* 2025-11-02 at 07:00 UTC and enters it on 2026-03-08 at 08:00 UTC.       *)
(***************************************************************************)
\* the local days of the transitions, in days since the inception
DstEndDay == 36

DstStartDay == 162

\* the instants of the transitions, in hours since the inception
DstEndHour == DstEndDay * 24 + 7

DstStartHour == DstStartDay * 24 + 8

\* get_timezone_offset_hours(dt): the offset of US/Central at the instant
\* the naive dt names when it is read as UTC
GetTimezoneOffsetHours(dt) ==
    IF dt < DstEndHour \/ dt >= DstStartHour THEN -5 ELSE -6

Abs(n) == IF n < 0 THEN -n ELSE n

\* adjust_datetime_for_service_request(dt, 'emporia')
AdjustDatetimeForServiceRequest(dt) == dt + Abs(GetTimezoneOffsetHours(dt))

\* correct_service_data_timestamps(data, 'emporia')
CorrectServiceDataTimestamps(records) ==
    [i \in 1 .. Len(records) |->
        [records[i] EXCEPT
            !.last_changed = @ + GetTimezoneOffsetHours(records[i].last_changed)]]

\* the local days a full-day request is made for
LocalDays == (0 .. DstEndDay + 2) \cup (DstStartDay - 1 .. DstStartDay + 1)

\* pull_data adjusts the window [D 00:00, D+1 00:00) of the Emporia request
AdjustWindow(day) ==
    /\ last.op = "none"
    /\ last' = [op |-> "adjusted", day |-> day,
                adjusted_start |-> AdjustDatetimeForServiceRequest(day * 24),
                adjusted_end |-> AdjustDatetimeForServiceRequest((day + 1) * 24),
                records |-> <<>>]
    /\ UNCHANGED <<table, table_json, archive, archive_json, now, data,
                   hourly_data, holidays, latest_analysis, fetch>>

\* the service answers get_history_data for every hour of the adjusted window
FetchWindow ==
    /\ last.op = "adjusted"
    /\ last' = [last EXCEPT
                   !.op = "fetched",
                   !.records = GetHistoryData(last.adjusted_start, last.adjusted_end)]
    /\ UNCHANGED <<table, table_json, archive, archive_json, now, data,
                   hourly_data, holidays, latest_analysis, fetch>>

\* pull_data corrects the timestamps of the records
CorrectTimestamps ==
    /\ last.op = "fetched"
    /\ last' = [last EXCEPT
                   !.op = "corrected",
                   !.records = CorrectServiceDataTimestamps(last.records)]
    /\ UNCHANGED <<table, table_json, archive, archive_json, now, data,
                   hourly_data, holidays, latest_analysis, fetch>>

AlignNext ==
    \/ \E day \in LocalDays : AdjustWindow(day)
    \/ FetchWindow
    \/ CorrectTimestamps

SpecAlign == MergeInit /\ [][AlignNext]_vars

\* the records lie on the 24 hours of the day, each hour once, in order
FullDay(records, day) ==
    /\ Len(records) = 24
    /\ \A i \in 1 .. Len(records) : records[i].last_changed = day * 24 + i - 1

\* C26: for every local day D the request for [D 00:00, D+1 00:00), passed
\* through the adjustment of the window, the hour-by-hour fetch and the
\* correction of the timestamps, yields records on exactly the 24 hour keys
\* D 00:00 .. D 23:00: never 23 or 25 hours, no hour shifted or twice.
C26_FullDayRoundTrip ==
    last.op = "corrected" => FullDay(last.records, last.day)

\* the round trip of a day on which the offset of US/Central does not change
\* between the start and the end of the adjusted window yields the 24 hours
RoundTripOffTransition ==
    (last.op = "corrected" /\ last.day \notin {DstEndDay, DstStartDay}) =>
       FullDay(last.records, last.day)

\* on the day daylight saving time ends the round trip yields 25 records
\* and the hour 01:00 twice
FallBackDay ==
    /\ last.op = "corrected"
    /\ last.day = DstEndDay
    /\ Len(last.records) = 25
    /\ \E i, j \in 1 .. Len(last.records) :
          /\ i # j
          /\ last.records[i].last_changed = last.records[j].last_changed
          /\ last.records[i].last_changed = DstEndDay * 24 + 1

\* on the day daylight saving time begins the round trip yields 23 records
SpringForwardDay ==
    /\ last.op = "corrected"
    /\ last.day = DstStartDay
    /\ Len(last.records) = 23

(***************************************************************************)
(* Routing of HomeAssistantHistoryPuller.get_history_data between the      *)
(* database and the two APIs.  Instants are hours; timedelta.days is the   *)
(* number of whole days of a difference.                                   *)
(***************************************************************************)
\* the oldest start of a request, in days before the clock
MaxAgeDays == 30

\* api_cutoff_days = 10
ApiCutoffDays == 10

\* statistics_threshold_days: int = 10, the default of the constructor
StatisticsThresholdDays == 10

\* timedelta.days of a difference of h hours
DaysOf(h) == h \div 24

\* datetime.now() of the request: 2025-11-06 05:00
ClockHour == 40 * 24 + 5

\* one call the puller makes: the database, the regular history API or the
\* long-term statistics API, for [start, end]
Call(via, start, end) == [via |-> via, start |-> start, end |-> end]

\* the API of a request of days_span days
ApiOf(days_span, threshold) ==
    IF days_span >= threshold THEN "statistics" ELSE "regular"

\* variant: the database is asked for the whole request
OldEndDt_Whole(api_cutoff_dt, end_dt) == end_dt

\* old_end_dt = min(api_cutoff_dt, end_dt)
OldEndDt(api_cutoff_dt, end_dt) == Min(api_cutoff_dt, end_dt)

\* get_hybrid_history_data: the calls it makes
GetHybridHistoryData(start_dt, end_dt, clock, database_puller, threshold) ==
    LET api_cutoff_dt == clock - ApiCutoffDays * 24
        api_start_dt == Max(api_cutoff_dt, start_dt)
        old == IF start_dt < api_cutoff_dt /\ database_puller
               THEN <<Call("database", start_dt, OldEndDt(api_cutoff_dt, end_dt))>>
               ELSE <<>>
        recent == IF end_dt > api_cutoff_dt
                  THEN <<Call(ApiOf(DaysOf(end_dt - api_start_dt), threshold),
                              api_start_dt, end_dt)>>
                  ELSE <<>>
    IN  old \o recent

\* get_history_data(entity_ids, start_time, end_time): the calls it makes
HaGetHistoryData(start_dt, end_dt, clock, database_puller, threshold) ==
    LET days_span == DaysOf(end_dt - start_dt)
        days_from_now == DaysOf(clock - start_dt)
    IN  IF days_from_now > ApiCutoffDays /\ days_span > ApiCutoffDays
        THEN GetHybridHistoryData(start_dt, end_dt, clock, database_puller, threshold)
        ELSE <<Call(ApiOf(days_span, threshold), start_dt, end_dt)>>

\* the ages of the starts and ends of the requests, in hours before the clock
AgeHours ==
    { d * 24 + o : d \in {0, 1, 9, 10, 11, 12, 20, MaxAgeDays}, o \in {0, 1} }

\* the requests: a start before an end, neither after the clock
HaRequests == { w \in AgeHours \X AgeHours : w[1] > w[2] }

\* one call of get_history_data at the clock
PullHaHistory(start_dt, end_dt, database_puller, threshold) ==
    /\ last.op = "none"
    /\ last' = [op |-> "ha_history", start |-> start_dt, end |-> end_dt,
                database_puller |-> database_puller, threshold |-> threshold,
                calls |-> HaGetHistoryData(start_dt, end_dt, ClockHour,
                                           database_puller, threshold)]
    /\ UNCHANGED <<table, table_json, archive, archive_json, now, data,
                   hourly_data, holidays, latest_analysis, fetch>>

RoutingNext ==
    \E w \in HaRequests, database_puller \in BOOLEAN,
       threshold \in {3, StatisticsThresholdDays} :
          PullHaHistory(ClockHour - w[1], ClockHour - w[2], database_puller, threshold)

SpecRouting == MergeInit /\ [][RoutingNext]_vars

\* the instant ten days before the clock
TenDaysAgo == ClockHour - 10 * 24

\* C27: the database is asked only for ranges that lie entirely more than 10
\* days in the past, and only for requests that start more than 10 days ago
\* and span more than 10 days; every part of a request within the last 10
\* days is fetched through an API, the regular history when the span is
\* below the statistics threshold and the long-term statistics otherwise.
C27_ApiFirstRouting ==
    last.op = "ha_history" =>
       /\ \A i \in 1 .. Len(last.calls) :
             /\ last.calls[i].via = "database" =>
                   /\ last.calls[i].end <= TenDaysAgo
                   /\ last.calls[i].start >= last.start
                   /\ (ClockHour - last.start) \div 24 > 10
                   /\ (last.end - last.start) \div 24 > 10
             /\ last.calls[i].via # "database" =>
                   /\ last.calls[i].end = last.end
                   /\ last.calls[i].via = "regular" <=>
                         (last.calls[i].end - last.calls[i].start) \div 24
                            < last.threshold
       /\ last.end > TenDaysAgo =>
             \E i \in 1 .. Len(last.calls) :
                /\ last.calls[i].via \in {"regular", "statistics"}
                /\ last.calls[i].start <= (IF last.start > TenDaysAgo
                                           THEN last.start ELSE TenDaysAgo)
                /\ last.calls[i].end = last.end

\* a hybrid request: the database for the part older than 10 days, and an
\* API for the part within the last 10 days
C27_Witness ==
    /\ last.op = "ha_history"
    /\ Len(last.calls) = 2
    /\ last.calls[1].via = "database"
    /\ last.calls[1].end = TenDaysAgo
    /\ last.calls[2].via = "regular"
    /\ last.calls[2].start = TenDaysAgo
    /\ last.calls[2].end = last.end

(***************************************************************************)
(* Incremental reconstruction: a first run of the add-on over the          *)
(* observations of one Home Assistant sensor, then an incremental run over *)
(* the observations from OverlapHours before the latest persisted hour on. *)
(***************************************************************************)
\* the last hour the sensor is observed at
MaxObservedHour == 12

\* the hours the sensor is observed at: every hour on the hour
ObservedHours == HaOffsetHours .. MaxObservedHour

\* the hours at which the sensor's hourly usage varies from history to history
VaryHours == {HaOffsetHours + 2, HaOffsetHours + 3, MaxObservedHour - 2, MaxObservedHour}

RECURSIVE Cumulative(_, _)
\* the cumulative reading at hour h of a sensor that uses usage[k] in the
\* hour before k when k is in VaryHours, and 0.10 kWh otherwise
Cumulative(usage, h) ==
    IF h < HaOffsetHours THEN 0
    ELSE Cumulative(usage, h - 1) + (IF h \in VaryHours THEN usage[h] ELSE 10)

\* the observations of sensor 1 with instants in [start_date, end_date]
ObservedIn(usage, start_date, end_date) ==
    LET hs == Ascending({ h \in ObservedHours : start_date <= h /\ h <= end_date })
    IN  [i \in 1 .. Len(hs) |->
            Observation(1, HourTick(hs[i]), Cumulative(usage, hs[i]))]

\* combined_df of a cycle of pull_data whose Home Assistant history is ha and
\* whose Emporia source is unavailable
ReconstructedFrame(ha) ==
    AddConsumptionAnalysis(
        ApplyUpstreamDeviceAdjustments(
            CombineSources(AnalyzeHaDataInternal(AnalyzeAll(ha)), NoColumnsDF)),
        holidays, FALSE)

\* the first run at the hour end_date: every observation so far, saved
FirstRun(usage, end_date) ==
    /\ now = 0
    /\ LET ha == ObservedIn(usage, InceptionHour, end_date)
           combined_df == ReconstructedFrame(ha)
           output_filename == OutputFilename(now)
           saved == PullDataSave(combined_df, FALSE, table, table_json,
                                 archive[output_filename],
                                 archive_json[output_filename])
       IN  /\ table' = saved.table
           /\ table_json' = saved.table_json
           /\ archive' = [archive EXCEPT ![output_filename] = saved.archive]
           /\ archive_json' = [archive_json EXCEPT
                                  ![output_filename] = saved.archive_json]
           /\ latest_analysis' = CopyLatest(saved.data_pull, table', latest_analysis)
           /\ data' = [loaded |-> TRUE, rows |-> ha]
           /\ hourly_data' = AnalyzeAll(ha)
           /\ last' = [op |-> "first_run", usage |-> usage, end_date |-> end_date,
                       start_date |-> InceptionHour, new_df |-> combined_df,
                       result |-> saved.data_pull, before |-> table]
    /\ now' = now + 1
    /\ UNCHANGED <<holidays, fetch>>

\* the incremental run at the hour end_date, on the same sensor
IncrementalRun(end_date) ==
    /\ now = 1
    /\ last.op = "first_run"
    /\ end_date > last.end_date
    /\ LET start_date == StartDate(latest_analysis, table, end_date)
           ha == ObservedIn(last.usage, start_date, end_date)
           combined_df == ReconstructedFrame(ha)
           output_filename == OutputFilename(now)
           saved == PullDataSave(combined_df, TRUE, table, table_json,
                                 archive[output_filename],
                                 archive_json[output_filename])
       IN  /\ table' = saved.table
           /\ table_json' = saved.table_json
           /\ archive' = [archive EXCEPT ![output_filename] = saved.archive]
           /\ archive_json' = [archive_json EXCEPT
                                  ![output_filename] = saved.archive_json]
           /\ latest_analysis' = CopyLatest(saved.data_pull, table', latest_analysis)
           /\ data' = [loaded |-> TRUE, rows |-> ha]
           /\ hourly_data' = AnalyzeAll(ha)
           /\ last' = [op |-> "incremental", usage |-> last.usage,
                       end_date |-> end_date, start_date |-> start_date,
                       new_df |-> combined_df, result |-> saved.data_pull,
                       before |-> table]
    /\ now' = now + 1
    /\ UNCHANGED <<holidays, fetch>>

\* the hours of the runs: the last hours of the observed history
IncrementalHours == { h \in ObservedHours : h + 3 >= MaxObservedHour }

IncrementalNext ==
    \/ \E usage \in [VaryHours -> {5, 20}], end_date \in IncrementalHours :
          FirstRun(usage, end_date)
    \/ \E end_date \in IncrementalHours : IncrementalRun(end_date)

SpecIncremental == MergeInit /\ [][IncrementalNext]_vars

\* the rows of sensor 1 in rows
SensorRows(rows) == { r \in RowsOf(rows) : r.entity_id = 1 }

\* what one reconstruction over every observation up to the hour end_date
\* gives for sensor 1
FullRecomputation(usage, end_date) ==
    SensorRows(ReconstructedFrame(ObservedIn(usage, InceptionHour, end_date)).rows)

\* the persisted row of sensor 1 at datetime d carries the hourly_consumption
\* of the full recomputation
AgreesAt(d) ==
    \A r \in SensorRows(table.rows) :
       r.datetime = d =>
          \E f \in FullRecomputation(last.usage, last.end_date) :
             /\ f.datetime = d
             /\ f.hourly_consumption = r.hourly_consumption

\* C29: after reconstruct-then-merge, for every hour covered by the
\* incremental batch (the overlap included) the persisted hourly_consumption
\* of the sensor equals what a single reconstruction over all observations,
\* old and new together, gives for that hour.
C29_IncrementalAgreesWithFull ==
    (last.op = "incremental" /\ last.result) =>
       \A d \in DatetimesOf(last.new_df.rows) : AgreesAt(d)

\* the first hourly record of the batch
FirstOfBatch ==
    CHOOSE d \in DatetimesOf(last.new_df.rows) :
       \A x \in DatetimesOf(last.new_df.rows) : ToDatetime(d) <= ToDatetime(x)

\* the persisted rows agree with the full recomputation at every hour of the
\* batch after its first
AgreesAfterFirstHour ==
    (last.op = "incremental" /\ last.result) =>
       \A d \in DatetimesOf(last.new_df.rows) \ {FirstOfBatch} : AgreesAt(d)

\* an incremental run that starts after the first observation and leaves 0
\* at the first hour of its batch, where the sensor used energy
FirstHourZeroed ==
    /\ last.op = "incremental"
    /\ last.result
    /\ last.start_date > HaOffsetHours
    /\ \E r \in SensorRows(table.rows) :
          /\ r.datetime = FirstOfBatch
          /\ r.hourly_consumption = 0
    /\ \E f \in FullRecomputation(last.usage, last.end_date) :
          /\ f.datetime = FirstOfBatch
          /\ f.hourly_consumption > 0

(***************************************************************************)
(* Progression of the mode from run to run.  last.after_success tells that *)
(* a run before the last one returned 0 and that only runs of the add-on   *)
(* have touched the files since.                                           *)
(***************************************************************************)
\* the file exists
Exists(f) == f.kind # "absent"

\* the last run returned 0
Succeeded == Ran /\ last.result

\* C30: whenever a run of the add-on ends with success, the snapshot
\* latest_analysis.csv and the persisted table energy_analysis.csv both
\* exist; every run that follows a successful run finds both, is incremental
\* and not a first run, and merges into a present table.
C30_ModeProgression ==
    /\ Succeeded => (Exists(latest_analysis) /\ Exists(table))
    /\ (Ran /\ last.after_success) =>
          /\ Exists(last.snapshot_before)
          /\ Exists(last.before)
          /\ last.is_incremental
          /\ ~last.is_first_run
          /\ last.result => MergedInto(last.before, last.new_df, table)

\* a successful incremental run that follows a successful run and adds
\* records to a table that holds records
C30_Witness ==
    /\ Succeeded
    /\ last.after_success
    /\ last.is_incremental
    /\ HasTimestamps(last.before)
    /\ RowsOf(last.before.rows) # RowsOf(table.rows)

====
